---- MODULE Spec2Model ----
(***************************************************************************)
(* NBT editor: the tag model, the binary codec (NBTParser / NBTWriter),    *)
(* and the per-document undo/redo history of the App component.            *)
(*                                                                         *)
(* JavaScript values are modelled as records [k, v]: k is the run-time     *)
(* kind of the value and v its content.                                    *)
(*   "null", "undefined"   v = 0                                           *)
(*   "int"      a Number holding an integer in the int32 range             *)
(*   "f64"      a Number held as the 8 bytes of its IEEE-754 double        *)
(*   "bigint"   <<hi, mid, lo>>: hi * 2^32 + mid * 2^16 + lo, with         *)
(*              mid, lo in 0..65535 and hi any integer (two's complement,  *)
(*              unbounded to the left)                                     *)
(*   "string"   the sequence of UTF-16 code units                          *)
(*   "numbers", "bigints", "tags"   arrays, by what they hold              *)
(*   "object"   the List payload [itemType, list]                          *)
(* A byte buffer is a sequence of 0..255; offsets are 0-based as in the    *)
(* source, so the byte at offset o is buf[o + 1].                          *)
(***************************************************************************)
EXTENDS Integers, Sequences, FiniteSets, TLC

VARIABLES
    files,          \* App state `files`: sequence of NBTFile
    activeFileId,   \* App state `activeFileId`
    lastOp,         \* history: the operation that produced this state
    hadRedo,        \* history: the last commit found a non-empty redoStack
    log,            \* history: pre-commit roots of the current run of commits
    undone,         \* history: undos issued since a run of > HistoryLimit commits
    run,            \* history: the current commit? undo^i redo^j pattern
    cpc,            \* codec: position in the encode/decode pipeline
    src,            \* codec: which input the pipeline started from
    tree,           \* codec: the tree handed to NBTWriter.write
    compress,       \* codec: the `compress` argument of NBTWriter.write
    out,            \* codec: the bytes NBTWriter.write returned
    bytes,          \* codec: the buffer handed to NBTParser.parse
    res,            \* codec: what NBTParser.parse returned (or that it threw)
    selectedPaths,  \* App state `selectedPaths`: a set of paths
    lastClickedPath,\* App state `lastClickedPath`; <<>> stands for null
    crashed,        \* a render threw: the App is unmounted
    ev,             \* editing: the last request, its target and how it ended
    shown           \* selection: the node each selected path showed when it
                    \* entered the selection

vars == <<files, activeFileId, lastOp, hadRedo, log, undone, run,
          cpc, src, tree, compress, out, bytes, res,
          selectedPaths, lastClickedPath, crashed, ev, shown>>
histVars == <<files, activeFileId, lastOp, hadRedo, log, undone, run>>
codecVars == <<cpc, src, tree, compress, out, bytes, res>>
appVars == <<selectedPaths, lastClickedPath, crashed, ev, shown>>

----------------------------------------------------------------------------
(* Bounds of the model *)

NumVersions == 3    \* distinct document contents the edits cycle through
MaxStreak == 52     \* longest run of consecutive commits explored
MaxK == 2           \* longest undo^k redo^k pattern tracked
ListLen == 2        \* elements in each generated List and LongArray
ShortLen == 3       \* every buffer over Alphabet up to this length is decoded
MaxEdits == 2       \* edits committed to a document in one run
MaxSel == 2         \* paths selected at a time
MaxBatch == 2       \* files opened by one request
MaxFiles == 2       \* a request is made while fewer documents are open
MaxBursts == 3      \* edits and bursts of requests in one run

----------------------------------------------------------------------------
(* types.ts: TagType *)

TagType_End == 0
TagType_Byte == 1
TagType_Short == 2
TagType_Int == 3
TagType_Long == 4
TagType_Float == 5
TagType_Double == 6
TagType_ByteArray == 7
TagType_String == 8
TagType_List == 9
TagType_Compound == 10
TagType_IntArray == 11
TagType_LongArray == 12

(* JavaScript values *)
Null == [k |-> "null", v |-> 0]
Undefined == [k |-> "undefined", v |-> 0]
Num(n) == [k |-> "int", v |-> n]
F64(b) == [k |-> "f64", v |-> b]
Big(t) == [k |-> "bigint", v |-> t]
Str(s) == [k |-> "string", v |-> s]
Numbers(s) == [k |-> "numbers", v |-> s]
BigInts(s) == [k |-> "bigints", v |-> s]
Tags(s) == [k |-> "tags", v |-> s]
ListObj(itemType, list) == [k |-> "object", v |-> [itemType |-> itemType, list |-> list]]

IsArray(val) == val.k \in {"numbers", "bigints", "tags"}

(* types.ts: NBTTag *)
NBTTag(type, name, value) == [type |-> type, name |-> name, value |-> value]

MapSeq(s, Op(_)) == [i \in 1..Len(s) |-> Op(s[i])]

(* treeUtils: cloneTag *)
RECURSIVE cloneTag(_)
\* a copy built without the `...tag` spread: the name is lost
cloneTag_NoSpread(tag) == [tag EXCEPT !.name = Null]
cloneTag(tag) ==
    IF IsArray(tag.value)
    THEN IF tag.type = TagType_Compound
         THEN [tag EXCEPT !.value = Tags(MapSeq(tag.value.v, cloneTag))]
         ELSE [tag EXCEPT !.value = [k |-> tag.value.k,
                                     v |-> [i \in 1..Len(tag.value.v) |-> tag.value.v[i]]]]
    ELSE IF tag.value.k = "object" /\ tag.type = TagType_List
         THEN [tag EXCEPT !.value = ListObj(tag.value.v.itemType,
                                            MapSeq(tag.value.v.list, cloneTag))]
         ELSE tag

----------------------------------------------------------------------------
(* App: history management *)

HistoryLimit == 50

\* Array.prototype.slice(-n): the last n elements
SliceLast(s, n) == IF Len(s) <= n THEN s ELSE SubSeq(s, Len(s) - n + 1, Len(s))
\* Array.prototype.slice(0, n): the first n elements
SliceFirst(s, n) == IF Len(s) <= n THEN s ELSE SubSeq(s, 1, n)
\* Array.prototype.slice(0, -1)
SliceButLast(s) == IF Len(s) = 0 THEN s ELSE SubSeq(s, 1, Len(s) - 1)

\* files.find(f => f.id === activeFileId): <<f>> when found, <<>> when undefined
activeFile(fs, id) ==
    LET I == {i \in DOMAIN fs : fs[i].id = id}
    IN  IF I = {} THEN <<>> ELSE <<fs[CHOOSE i \in I : \A j \in I : i <= j]>>

pushHistory_NoTrim(prev, fileId, newRoot) ==
    [i \in DOMAIN prev |->
        IF prev[i].id # fileId THEN prev[i]
        ELSE [prev[i] EXCEPT !.root = newRoot, !.isModified = TRUE,
                             !.undoStack = Append(prev[i].undoStack, cloneTag(prev[i].root)),
                             !.redoStack = <<>>]]
pushHistory_KeepRedo(prev, fileId, newRoot) ==
    [i \in DOMAIN prev |->
        IF prev[i].id # fileId THEN prev[i]
        ELSE [prev[i] EXCEPT !.root = newRoot, !.isModified = TRUE,
                             !.undoStack = SliceLast(Append(prev[i].undoStack,
                                                            cloneTag(prev[i].root)),
                                                     HistoryLimit)]]
pushHistory_KeepOldest(prev, fileId, newRoot) ==
    [i \in DOMAIN prev |->
        IF prev[i].id # fileId THEN prev[i]
        ELSE [prev[i] EXCEPT !.root = newRoot, !.isModified = TRUE,
                             !.undoStack = SliceFirst(Append(prev[i].undoStack,
                                                             cloneTag(prev[i].root)),
                                                      HistoryLimit),
                             !.redoStack = <<>>]]
\* the test f.id !== fileId is left out: every open file gets the new root
pushHistory_EveryFile(prev, fileId, newRoot) ==
    [i \in DOMAIN prev |->
        [prev[i] EXCEPT !.root = newRoot, !.isModified = TRUE,
                        !.undoStack = SliceLast(Append(prev[i].undoStack,
                                                       cloneTag(prev[i].root)),
                                                HistoryLimit),
                        !.redoStack = <<>>]]
pushHistory(prev, fileId, newRoot) ==
    [i \in DOMAIN prev |->
        IF prev[i].id # fileId THEN prev[i]
        ELSE [prev[i] EXCEPT !.root = newRoot, !.isModified = TRUE,
                             !.undoStack = SliceLast(Append(prev[i].undoStack,
                                                            cloneTag(prev[i].root)),
                                                     HistoryLimit),
                             !.redoStack = <<>>]]

\* af is the rendered activeFile the callback closed over, prev the state the
\* setFiles updater receives
handleUndo_NoRedoPush(prev, af) ==
    IF af = <<>> \/ Len(af[1].undoStack) = 0 THEN prev
    ELSE [i \in DOMAIN prev |->
            IF prev[i].id = af[1].id
            THEN [prev[i] EXCEPT !.root = af[1].undoStack[Len(af[1].undoStack)],
                                 !.undoStack = SliceButLast(af[1].undoStack),
                                 !.isModified = TRUE]
            ELSE prev[i]]
handleUndo(prev, af) ==
    IF af = <<>> \/ Len(af[1].undoStack) = 0 THEN prev
    ELSE LET prevRoot == af[1].undoStack[Len(af[1].undoStack)]
             newUndo == SliceButLast(af[1].undoStack)
             newRedo == Append(af[1].redoStack, cloneTag(af[1].root))
         IN  [i \in DOMAIN prev |->
                IF prev[i].id = af[1].id
                THEN [prev[i] EXCEPT !.root = prevRoot, !.undoStack = newUndo,
                                     !.redoStack = newRedo, !.isModified = TRUE]
                ELSE prev[i]]

handleRedo_KeepCurrent(prev, af) ==
    IF af = <<>> \/ Len(af[1].redoStack) = 0 THEN prev
    ELSE [i \in DOMAIN prev |->
            IF prev[i].id = af[1].id
            THEN [prev[i] EXCEPT !.undoStack = Append(af[1].undoStack, cloneTag(af[1].root)),
                                 !.redoStack = SliceButLast(af[1].redoStack),
                                 !.isModified = TRUE]
            ELSE prev[i]]
handleRedo(prev, af) ==
    IF af = <<>> \/ Len(af[1].redoStack) = 0 THEN prev
    ELSE LET nextRoot == af[1].redoStack[Len(af[1].redoStack)]
             newRedo == SliceButLast(af[1].redoStack)
             newUndo == Append(af[1].undoStack, cloneTag(af[1].root))
         IN  [i \in DOMAIN prev |->
                IF prev[i].id = af[1].id
                THEN [prev[i] EXCEPT !.root = nextRoot, !.undoStack = newUndo,
                                     !.redoStack = newRedo, !.isModified = TRUE]
                ELSE prev[i]]

\* activeFileId is a natural; 0 stands for null
updateActiveFileRoot(prev, id, newRoot) ==
    IF id = 0 THEN prev ELSE pushHistory(prev, id, newRoot)

----------------------------------------------------------------------------
(* The documents the history specification edits *)

XpLevel == <<88, 112, 76, 101, 118, 101, 108>>

\* the Compound named "" holding one Int "XpLevel" = n
VersionRoot(n) ==
    NBTTag(TagType_Compound, Str(<<>>),
           Tags(<<NBTTag(TagType_Int, Str(XpLevel), Num(n))>>))

\* the edit a commit installs: XpLevel set to the next of NumVersions values
NextRoot(root) == VersionRoot((root.value.v[1].value.v + 1) % NumVersions)

\* the NBTFile handleFileUpload builds for a parsed file
NewFile(id, root, isCompressed) ==
    [id |-> id, filename |-> id, root |-> root, isCompressed |-> isCompressed,
     isModified |-> FALSE, undoStack |-> <<>>, redoStack |-> <<>>]

NoRun == [c |-> FALSE, pre |-> <<>>, new |-> <<>>, i |-> 0, j |-> 0, base |-> <<>>]

Doc == activeFile(files, activeFileId)[1]

CodecIdle ==
    /\ cpc = "idle" /\ src = 0 /\ tree = <<>> /\ compress = FALSE
    /\ out = <<>> /\ bytes = <<>> /\ res = <<>>

NoEvent == [op |-> "none", loc |-> <<>>, arg |-> <<>>, n |-> 0]

AppIdle ==
    /\ selectedPaths = {} /\ lastClickedPath = <<>> /\ crashed = FALSE /\ ev = NoEvent
    /\ shown = {}

Init ==
    /\ files = <<NewFile(1, VersionRoot(0), FALSE)>>
    /\ activeFileId = 1
    /\ lastOp = "open"
    /\ hadRedo = FALSE
    /\ log = <<>>
    /\ undone = 0
    /\ run = NoRun
    /\ CodecIdle
    /\ AppIdle

\* an accepted edit: NBTNode.onUpdate -> updateActiveFileRoot(newRoot)
Commit ==
    /\ Len(log) < MaxStreak
    /\ LET newRoot == NextRoot(Doc.root)
       IN  /\ files' = updateActiveFileRoot(files, activeFileId, newRoot)
           /\ run' = [c |-> TRUE, pre |-> <<Doc.root>>, new |-> <<newRoot>>,
                      i |-> 0, j |-> 0, base |-> <<>>]
    /\ lastOp' = "commit"
    /\ hadRedo' = (Len(Doc.redoStack) > 0)
    /\ log' = IF lastOp \in {"open", "commit"} THEN Append(log, Doc.root) ELSE <<Doc.root>>
    /\ undone' = 0
    /\ UNCHANGED <<activeFileId, codecVars, appVars>>

\* Ctrl+Z / the undo button
Undo ==
    /\ ~crashed
    /\ activeFile(files, activeFileId) # <<>>
    /\ files' = handleUndo(files, activeFile(files, activeFileId))
    /\ lastOp' = "undo"
    /\ hadRedo' = FALSE
    /\ IF Len(log) > HistoryLimit
       THEN /\ log' = log
            /\ undone' = IF undone <= HistoryLimit THEN undone + 1 ELSE undone
       ELSE /\ log' = <<>>
            /\ undone' = 0
    /\ run' = IF Len(Doc.undoStack) = 0 THEN NoRun
              ELSE IF run.j = 0 /\ run.i < MaxK
                   THEN [run EXCEPT !.i = @ + 1,
                                    !.base = IF run.i = 0
                                             THEN <<[root |-> Doc.root,
                                                     undoStack |-> Doc.undoStack]>>
                                             ELSE @]
                   ELSE [NoRun EXCEPT !.i = 1,
                                      !.base = <<[root |-> Doc.root,
                                                  undoStack |-> Doc.undoStack]>>]
    /\ UNCHANGED <<activeFileId, codecVars, appVars>>

\* Ctrl+Y / Ctrl+Shift+Z / the redo button
Redo ==
    /\ ~crashed
    /\ activeFile(files, activeFileId) # <<>>
    /\ files' = handleRedo(files, activeFile(files, activeFileId))
    /\ lastOp' = "redo"
    /\ hadRedo' = FALSE
    /\ log' = <<>>
    /\ undone' = 0
    /\ run' = IF Len(Doc.redoStack) > 0 /\ run.i > 0 /\ run.j < run.i
              THEN [run EXCEPT !.j = @ + 1]
              ELSE NoRun
    /\ UNCHANGED <<activeFileId, codecVars, appVars>>

Next == Commit \/ Undo \/ Redo

Spec == Init /\ [][Next]_vars

----------------------------------------------------------------------------
(* DataView reads: big-endian, RangeError (modelled by the callers' bounds   *)
(* checks) when the read leaves the buffer                                 *)

InBounds(buf, off, n) == off >= 0 /\ n >= 0 /\ off + n <= Len(buf)
getUint8(buf, off) == buf[off + 1]
getInt8(buf, off) == IF buf[off + 1] >= 128 THEN buf[off + 1] - 256 ELSE buf[off + 1]
getUint16(buf, off) == buf[off + 1] * 256 + buf[off + 2]
getInt16(buf, off) ==
    IF buf[off + 1] >= 128 THEN getUint16(buf, off) - 65536 ELSE getUint16(buf, off)
getInt32(buf, off) ==
    (IF buf[off + 1] >= 128 THEN buf[off + 1] - 256 ELSE buf[off + 1]) * 16777216
        + buf[off + 2] * 65536 + buf[off + 3] * 256 + buf[off + 4]

(* BigInt arithmetic on <<hi, mid, lo>> *)
RECURSIVE BitOr(_, _)
BitOr(a, b) ==
    IF a = 0 THEN b
    ELSE IF b = 0 THEN a
    ELSE IF a = -1 \/ b = -1 THEN -1
    ELSE 2 * BitOr(a \div 2, b \div 2) + (IF a % 2 = 1 \/ b % 2 = 1 THEN 1 ELSE 0)

\* BigInt(n) for a Number n in the int32 range
BigIntOf(n) == <<IF n < 0 THEN -1 ELSE 0, (n \div 65536) % 65536, n % 65536>>
\* x << 32n, for x in the int32 range
BigShl32(x) == <<(x[1] * 65536 + x[2]) * 65536 + x[3], 0, 0>>
\* x >> 32n
BigShr32(x) == BigIntOf(x[1])
\* x & 0xFFFFFFFFn
BigAnd32(x) == <<0, x[2], x[3]>>
\* x | y
BigOr(x, y) == <<BitOr(x[1], y[1]), BitOr(x[2], y[2]), BitOr(x[3], y[3])>>
\* ToInt32(Number(x)), the low 32 bits of x as a signed integer: what the
\* shifts of writeInt make of the Number they are given
ToInt32(x) == (IF x[2] >= 32768 THEN x[2] - 65536 ELSE x[2]) * 65536 + x[3]

(* nbtParser.ts: parseLong *)
parseLong_NoMask(buf, off) ==
    BigOr(BigShl32(BigIntOf(getInt32(buf, off))), BigIntOf(getInt32(buf, off + 4)))
parseLong(buf, off) ==
    LET high == getInt32(buf, off)
        low == getInt32(buf, off + 4)
    IN  BigOr(BigShl32(BigIntOf(high)), BigAnd32(BigIntOf(low)))

RECURSIVE Pow2(_)
Pow2(n) == IF n <= 0 THEN 1 ELSE 2 * Pow2(n - 1)
RECURSIVE BitLength(_)
BitLength(n) == IF n <= 0 THEN 0 ELSE 1 + BitLength(n \div 2)

(* IEEE-754: DataView.getFloat32 / setFloat32 / getFloat64 / setFloat64.    *)
(* A Number is its 8 double bytes; NaN is the one pattern 7FF8 0000 ...     *)
NaN64 == <<127, 248, 0, 0, 0, 0, 0, 0>>
Pack32(sign, e, f) ==
    <<sign * 128 + e \div 2, (e % 2) * 128 + f \div 65536, (f \div 256) % 256, f % 256>>
\* sign, 11-bit exponent, the top 23 bits of the fraction (the low 29 are zero)
Pack64(sign, e, f) ==
    <<sign * 128 + e \div 16, (e % 16) * 16 + f \div 524288, (f \div 2048) % 256,
      (f \div 8) % 256, (f % 8) * 32, 0, 0, 0>>

\* setFloat32(0, f): round the double to the nearest single, ties to even
F64ToF32(b) ==
    LET sign == b[1] \div 128
        e11 == (b[1] % 128) * 16 + b[2] \div 16
        top == (b[2] % 16) * 524288 + b[3] * 2048 + b[4] * 8 + b[5] \div 32
        rem == (b[5] % 32) * 16777216 + b[6] * 65536 + b[7] * 256 + b[8]
        e8 == e11 - 1023 + 127
        up == IF rem > 268435456 \/ (rem = 268435456 /\ top % 2 = 1) THEN 1 ELSE 0
        shift == 1 - e8
        m24 == 8388608 + top
        q == m24 \div Pow2(shift)
        r == m24 % Pow2(shift)
        half == Pow2(shift - 1)
        upSub == IF r > half \/ (r = half /\ (rem > 0 \/ q % 2 = 1)) THEN 1 ELSE 0
    IN  IF e11 = 2047
        THEN IF top = 0 /\ rem = 0 THEN Pack32(sign, 255, 0) ELSE <<127, 192, 0, 0>>
        ELSE IF e11 = 0 THEN Pack32(sign, 0, 0)
        ELSE IF e8 >= 1
             THEN IF e8 + (top + up) \div 8388608 >= 255 THEN Pack32(sign, 255, 0)
                  ELSE Pack32(sign, e8 + (top + up) \div 8388608, (top + up) % 8388608)
             ELSE IF shift > 25 THEN Pack32(sign, 0, 0)
                  ELSE Pack32(sign, (q + upSub) \div 8388608, (q + upSub) % 8388608)

\* getFloat32(offset): the single, widened exactly
F32ToF64(b) ==
    LET sign == b[1] \div 128
        e8 == (b[1] % 128) * 2 + b[2] \div 128
        f == (b[2] % 128) * 65536 + b[3] * 256 + b[4]
        len == BitLength(f)
    IN  IF e8 = 255 THEN (IF f = 0 THEN Pack64(sign, 2047, 0) ELSE NaN64)
        ELSE IF e8 = 0
             THEN IF f = 0 THEN Pack64(sign, 0, 0)
                  ELSE Pack64(sign, len - 150 + 1023, (f - Pow2(len - 1)) * Pow2(24 - len))
             ELSE Pack64(sign, e8 - 127 + 1023, f)

\* getFloat64(offset)
F64Of(b) ==
    LET e11 == (b[1] % 128) * 16 + b[2] \div 16
        zeroFrac == b[2] % 16 = 0 /\ \A i \in 3..8 : b[i] = 0
    IN  IF e11 = 2047 /\ ~zeroFrac THEN NaN64 ELSE b

(* TextEncoder / TextDecoder('utf-8') *)
IsCont(b) == b >= 128 /\ b <= 191
RECURSIVE Utf8Encode(_)
Utf8Encode(u) ==
    IF Len(u) = 0 THEN <<>>
    ELSE LET c == u[1]
             pair == c >= 55296 /\ c <= 56319 /\ Len(u) >= 2
                     /\ u[2] >= 56320 /\ u[2] <= 57343
             cp == 65536 + (c - 55296) * 1024 + (IF pair THEN u[2] - 56320 ELSE 0)
         IN  IF c < 128 THEN <<c>> \o Utf8Encode(Tail(u))
             ELSE IF c < 2048
                  THEN <<192 + c \div 64, 128 + (c % 64)>> \o Utf8Encode(Tail(u))
             ELSE IF pair
                  THEN <<240 + cp \div 262144, 128 + ((cp \div 4096) % 64),
                         128 + ((cp \div 64) % 64), 128 + (cp % 64)>>
                       \o Utf8Encode(Tail(Tail(u)))
             ELSE IF c >= 55296 /\ c <= 57343
                  THEN <<239, 191, 189>> \o Utf8Encode(Tail(u))
             ELSE <<224 + c \div 4096, 128 + ((c \div 64) % 64), 128 + (c % 64)>>
                  \o Utf8Encode(Tail(u))

\* code points of the byte sequence from position i on; U+FFFD for each
\* ill-formed subsequence
RECURSIVE Utf8CodePoints(_, _)
Utf8CodePoints(b, i) ==
    IF i > Len(b) THEN <<>>
    ELSE LET c == b[i]
             need == IF c >= 194 /\ c <= 223 THEN 1
                     ELSE IF c >= 224 /\ c <= 239 THEN 2
                     ELSE IF c >= 240 /\ c <= 244 THEN 3 ELSE 0
             lo == IF c = 224 THEN 160 ELSE IF c = 240 THEN 144 ELSE 128
             hi == IF c = 237 THEN 159 ELSE IF c = 244 THEN 143 ELSE 191
             ok2 == i + 1 <= Len(b) /\ b[i + 1] >= lo /\ b[i + 1] <= hi
             ok3 == ok2 /\ i + 2 <= Len(b) /\ IsCont(b[i + 2])
             ok4 == ok3 /\ i + 3 <= Len(b) /\ IsCont(b[i + 3])
         IN  IF c < 128 THEN <<c>> \o Utf8CodePoints(b, i + 1)
             ELSE IF need = 0 THEN <<65533>> \o Utf8CodePoints(b, i + 1)
             ELSE IF ~ok2 THEN <<65533>> \o Utf8CodePoints(b, i + 1)
             ELSE IF need = 1
                  THEN <<(c - 192) * 64 + (b[i + 1] - 128)>> \o Utf8CodePoints(b, i + 2)
             ELSE IF ~ok3 THEN <<65533>> \o Utf8CodePoints(b, i + 2)
             ELSE IF need = 2
                  THEN <<(c - 224) * 4096 + (b[i + 1] - 128) * 64 + (b[i + 2] - 128)>>
                       \o Utf8CodePoints(b, i + 3)
             ELSE IF ~ok4 THEN <<65533>> \o Utf8CodePoints(b, i + 3)
             ELSE <<(c - 240) * 262144 + (b[i + 1] - 128) * 4096
                      + (b[i + 2] - 128) * 64 + (b[i + 3] - 128)>>
                  \o Utf8CodePoints(b, i + 4)

RECURSIVE ToCodeUnits(_)
ToCodeUnits(cps) ==
    IF Len(cps) = 0 THEN <<>>
    ELSE IF cps[1] >= 65536
         THEN <<55296 + (cps[1] - 65536) \div 1024, 56320 + ((cps[1] - 65536) % 1024)>>
              \o ToCodeUnits(Tail(cps))
         ELSE <<cps[1]>> \o ToCodeUnits(Tail(cps))

\* decoder.decode(bytes) with ignoreBOM = false: a leading U+FEFF is dropped
Utf8Decode(b) ==
    LET cps == Utf8CodePoints(b, 1)
    IN  ToCodeUnits(IF Len(cps) > 0 /\ cps[1] = 65279 THEN Tail(cps) ELSE cps)

----------------------------------------------------------------------------
(* nbtParser.ts: NBTParser.  A read returns [ok, v, off]; ok = FALSE is a   *)
(* thrown RangeError.                                                      *)

Thrown == [ok |-> FALSE, v |-> Null, off |-> 0]
Got(v, off) == [ok |-> TRUE, v |-> v, off |-> off]

readString(buf, off) ==
    IF ~InBounds(buf, off, 2) THEN Thrown
    ELSE LET len == getUint16(buf, off)
         IN  IF ~InBounds(buf, off + 2, len) THEN Thrown
             ELSE Got(Str(Utf8Decode(SubSeq(buf, off + 3, off + 2 + len))), off + 2 + len)

\* for (i = 0; i < n; i++) value.push(view.getInt32(offset)), offset += 4
RECURSIVE readInts(_, _, _, _)
readInts(buf, off, n, acc) ==
    IF n <= 0 THEN Got(Numbers(acc), off)
    ELSE IF ~InBounds(buf, off, 4) THEN Thrown
    ELSE readInts(buf, off + 4, n - 1, Append(acc, getInt32(buf, off)))

RECURSIVE readLongs(_, _, _, _)
readLongs(buf, off, n, acc) ==
    IF n <= 0 THEN Got(BigInts(acc), off)
    ELSE IF ~InBounds(buf, off, 8) THEN Thrown
    ELSE readLongs(buf, off + 8, n - 1, Append(acc, parseLong(buf, off)))

RECURSIVE readTag(_, _, _, _, _)
RECURSIVE readList(_, _, _, _, _)
RECURSIVE readCompound(_, _, _)

\* for (i = 0; i < listLen; i++) value.list.push(this.readTag(false, itemType, null))
readList(buf, off, itemType, n, acc) ==
    IF n <= 0 THEN Got(ListObj(itemType, acc), off)
    ELSE LET r == readTag(buf, off, FALSE, TRUE, itemType)
         IN  IF ~r.ok THEN Thrown
             ELSE readList(buf, r.off, itemType, n - 1, Append(acc, r.v))

\* while (true) { peek; End: offset += 1, break; else value.push(readTag(false)) }
readCompound(buf, off, acc) ==
    IF ~InBounds(buf, off, 1) THEN Thrown
    ELSE IF getUint8(buf, off) = TagType_End THEN Got(Tags(acc), off + 1)
    ELSE LET r == readTag(buf, off, FALSE, FALSE, 0)
         IN  IF ~r.ok THEN Thrown ELSE readCompound(buf, r.off, Append(acc, r.v))

\* the switch (type) of readTag: the payload at off
readPayload(buf, off, type) ==
    CASE type = TagType_Byte ->
            IF ~InBounds(buf, off, 1) THEN Thrown
            ELSE Got(Num(getInt8(buf, off)), off + 1)
      [] type = TagType_Short ->
            IF ~InBounds(buf, off, 2) THEN Thrown
            ELSE Got(Num(getInt16(buf, off)), off + 2)
      [] type = TagType_Int ->
            IF ~InBounds(buf, off, 4) THEN Thrown
            ELSE Got(Num(getInt32(buf, off)), off + 4)
      [] type = TagType_Long ->
            IF ~InBounds(buf, off, 8) THEN Thrown
            ELSE Got(Big(parseLong(buf, off)), off + 8)
      [] type = TagType_Float ->
            IF ~InBounds(buf, off, 4) THEN Thrown
            ELSE Got(F64(F32ToF64(SubSeq(buf, off + 1, off + 4))), off + 4)
      [] type = TagType_Double ->
            IF ~InBounds(buf, off, 8) THEN Thrown
            ELSE Got(F64(F64Of(SubSeq(buf, off + 1, off + 8))), off + 8)
      [] type = TagType_ByteArray ->
            IF ~InBounds(buf, off, 4) THEN Thrown
            ELSE LET lenByte == getInt32(buf, off)
                 IN  \* new Int8Array(buffer, offset, lenByte) throws on a negative
                     \* length and on a length that leaves the buffer
                     IF ~InBounds(buf, off + 4, lenByte) THEN Thrown
                     ELSE Got(Numbers([i \in 1..lenByte |-> getInt8(buf, off + 3 + i)]),
                              off + 4 + lenByte)
      [] type = TagType_String -> readString(buf, off)
      [] type = TagType_List ->
            IF ~InBounds(buf, off, 5) THEN Thrown
            ELSE readList(buf, off + 5, getUint8(buf, off), getInt32(buf, off + 1), <<>>)
      [] type = TagType_Compound -> readCompound(buf, off, <<>>)
      [] type = TagType_IntArray ->
            IF ~InBounds(buf, off, 4) THEN Thrown
            ELSE readInts(buf, off + 4, getInt32(buf, off), <<>>)
      [] type = TagType_LongArray ->
            IF ~InBounds(buf, off, 4) THEN Thrown
            ELSE readLongs(buf, off + 4, getInt32(buf, off), <<>>)
      [] OTHER -> Got(Undefined, off)

\* forcedName is null at every call site, so name starts as null
readTag(buf, off0, isRoot, forced, forcedType) ==
    IF ~forced /\ ~InBounds(buf, off0, 1) THEN Thrown
    ELSE LET type == IF forced THEN forcedType ELSE getUint8(buf, off0)
             off1 == IF forced THEN off0 ELSE off0 + 1
         IN  IF type = TagType_End THEN Got(NBTTag(type, Null, Null), off1)
             ELSE LET nm == IF isRoot \/ ~forced THEN readString(buf, off1)
                            ELSE Got(Null, off1)
                  IN  IF ~nm.ok THEN Thrown
                      ELSE LET p == readPayload(buf, nm.off, type)
                           IN  IF ~p.ok THEN Thrown
                               ELSE Got(NBTTag(type, nm.v, p.v), p.off)

----------------------------------------------------------------------------
(* nbtParser.ts: NBTWriter.  Each write returns the bytes it pushes.        *)

writeByte(b) == <<b % 256>>
writeShort(s) == <<(s \div 256) % 256, s % 256>>
writeInt(i) == <<(i \div 16777216) % 256, (i \div 65536) % 256, (i \div 256) % 256, i % 256>>
writeLong(l) ==
    LET high == BigShr32(l)
        low == BigAnd32(l)
    IN  writeInt(ToInt32(high)) \o writeInt(ToInt32(low))
writeFloat(f) == F64ToF32(f)
writeDouble(d) == d
writeString(s) ==
    LET b == Utf8Encode(s) IN writeShort(Len(b)) \o b

\* BigInt(tag.value)
ToBigInt(val) == IF val.k = "bigint" THEN val.v ELSE BigIntOf(val.v)

RECURSIVE ConcatAll(_)
ConcatAll(ss) == IF Len(ss) = 0 THEN <<>> ELSE ss[1] \o ConcatAll(Tail(ss))

RECURSIVE writeTag(_, _, _)
writeTag(tag, isRoot, skipHeader) ==
    (IF skipHeader THEN <<>>
     ELSE writeByte(tag.type)
          \o (IF isRoot \/ tag.name.k # "null"
              THEN writeString(IF tag.name.k = "null" THEN <<>> ELSE tag.name.v)
              ELSE <<>>))
    \o (CASE tag.type = TagType_Byte -> writeByte(tag.value.v)
          [] tag.type = TagType_Short -> writeShort(tag.value.v)
          [] tag.type = TagType_Int -> writeInt(tag.value.v)
          [] tag.type = TagType_Long -> writeLong(ToBigInt(tag.value))
          [] tag.type = TagType_Float -> writeFloat(tag.value.v)
          [] tag.type = TagType_Double -> writeDouble(tag.value.v)
          [] tag.type = TagType_ByteArray ->
                writeInt(Len(tag.value.v))
                \o ConcatAll([i \in 1..Len(tag.value.v) |-> writeByte(tag.value.v[i])])
          [] tag.type = TagType_String -> writeString(tag.value.v)
          [] tag.type = TagType_List ->
                writeByte(tag.value.v.itemType)
                \o writeInt(Len(tag.value.v.list))
                \o ConcatAll([i \in 1..Len(tag.value.v.list) |->
                                writeTag(tag.value.v.list[i], FALSE, TRUE)])
          [] tag.type = TagType_Compound ->
                ConcatAll([i \in 1..Len(tag.value.v) |->
                                writeTag(tag.value.v[i], FALSE, FALSE)])
                \o writeByte(TagType_End)
          [] tag.type = TagType_IntArray ->
                writeInt(Len(tag.value.v))
                \o ConcatAll([i \in 1..Len(tag.value.v) |-> writeInt(tag.value.v[i])])
          [] tag.type = TagType_LongArray ->
                writeInt(Len(tag.value.v))
                \o ConcatAll([i \in 1..Len(tag.value.v) |-> writeLong(tag.value.v[i])])
          [] OTHER -> <<>>)

(* pako: the gzip frame, by its contract.  A frame is the magic 1F 8B, the   *)
(* method byte 08, the payload, and a two-byte trailer (check sum, length)  *)
(* that ungzip verifies; ungzip throws on anything else.                    *)
RECURSIVE SumBytes(_)
SumBytes(b) == IF Len(b) = 0 THEN 0 ELSE (b[1] + SumBytes(Tail(b))) % 256
gzip(u8) == <<31, 139, 8>> \o u8 \o <<SumBytes(u8), Len(u8) % 256>>
ungzip(arr) ==
    LET n == Len(arr)
        body == SubSeq(arr, 4, n - 2)
    IN  IF n >= 5 /\ arr[1] = 31 /\ arr[2] = 139 /\ arr[3] = 8
           /\ arr[n - 1] = SumBytes(body) /\ arr[n] = Len(body) % 256
        THEN [ok |-> TRUE, data |-> body]
        ELSE [ok |-> FALSE, data |-> <<>>]

(* NBTWriter.write *)
write(root, doCompress) ==
    LET u8 == writeTag(root, TRUE, FALSE)
    IN  IF doCompress THEN gzip(u8) ELSE u8

(* NBTParser.parse.  The result records, beside {root, isCompressed}, whether *)
(* pako.ungzip was called and which buffer the parser was constructed on.   *)
ParseResult(ok, root, isCompressed, ungzipCalled, parsed) ==
    [ok |-> ok, root |-> root, isCompressed |-> isCompressed,
     ungzipCalled |-> ungzipCalled, parsed |-> parsed]

ParseOn(finalBuffer, isCompressed, ungzipCalled) ==
    LET r == readTag(finalBuffer, 0, TRUE, FALSE, 0)
    IN  IF r.ok THEN ParseResult(TRUE, <<r.v>>, isCompressed, ungzipCalled, <<finalBuffer>>)
        ELSE ParseResult(FALSE, <<>>, FALSE, ungzipCalled, <<finalBuffer>>)

parse_FallBackToRaw(buffer) ==
    IF Len(buffer) >= 2 /\ buffer[1] = 31 /\ buffer[2] = 139
    THEN IF ungzip(buffer).ok THEN ParseOn(ungzip(buffer).data, TRUE, TRUE)
         ELSE ParseOn(buffer, FALSE, TRUE)
    ELSE ParseOn(buffer, FALSE, FALSE)
parse(buffer) ==
    IF Len(buffer) >= 1 /\ buffer[1] = 31 /\ Len(buffer) >= 2 /\ buffer[2] = 139
    THEN LET inflated == ungzip(buffer)
         IN  IF inflated.ok THEN ParseOn(inflated.data, TRUE, TRUE)
             ELSE ParseResult(FALSE, <<>>, FALSE, TRUE, <<>>)
    ELSE ParseOn(buffer, FALSE, FALSE)

----------------------------------------------------------------------------
(* History claims *)

\* g's undoStack is f's with root appended, cut to the newest HistoryLimit entries
PushedTrimmed(old, root, new) ==
    /\ Len(new) = (IF Len(old) + 1 > HistoryLimit THEN HistoryLimit ELSE Len(old) + 1)
    /\ new[Len(new)] = root
    /\ \A i \in 1..(Len(new) - 1) : new[i] = old[Len(old) - (Len(new) - 1) + i]

\* C1: a commit appends a copy of the then-current root to undoStack (trimmed to
\* the cap), installs newRoot, empties redoStack and sets the dirty flag; a redo
\* issued directly after a commit changes nothing.
C1_Commit ==
    [][/\ lastOp' = "commit" =>
            /\ PushedTrimmed(Doc.undoStack, Doc.root, Doc'.undoStack)
            /\ Doc'.root = NextRoot(Doc.root)
            /\ Doc'.redoStack = <<>>
            /\ Doc'.isModified
       /\ (lastOp = "commit" /\ lastOp' = "redo") => files' = files]_vars

\* a commit made after an undo (it found redo entries to discard)
C1_Witness == lastOp = "commit" /\ hadRedo /\ Len(Doc.undoStack) > 1

\* C2: undo with an empty undoStack changes nothing; otherwise it pops the last
\* undoStack entry into root, appends the previous root to redoStack, sets dirty.
C2_Undo ==
    [][lastOp' = "undo" =>
          IF Len(Doc.undoStack) = 0
          THEN files' = files
          ELSE /\ Doc'.root = Doc.undoStack[Len(Doc.undoStack)]
               /\ Doc'.undoStack = SubSeq(Doc.undoStack, 1, Len(Doc.undoStack) - 1)
               /\ Doc'.redoStack = Doc.redoStack \o <<Doc.root>>
               /\ Doc'.isModified]_vars

C2_Witness == lastOp = "undo" /\ run.i > 0 /\ Len(Doc.redoStack) > 1

\* C3: redo with an empty redoStack changes nothing; otherwise it pops the last
\* redoStack entry into root, appends the previous root to undoStack, sets dirty.
C3_Redo ==
    [][lastOp' = "redo" =>
          IF Len(Doc.redoStack) = 0
          THEN files' = files
          ELSE /\ Doc'.root = Doc.redoStack[Len(Doc.redoStack)]
               /\ Doc'.redoStack = SubSeq(Doc.redoStack, 1, Len(Doc.redoStack) - 1)
               /\ Doc'.undoStack = Doc.undoStack \o <<Doc.root>>
               /\ Doc'.isModified]_vars

C3_Witness == lastOp = "redo" /\ run.j > 0 /\ Len(Doc.redoStack) > 0

\* C4: commit then undo restores the pre-commit root; the redo after that undo
\* restores newRoot; k undos then k redos restore root and undoStack.
C4_InverseLaw ==
    /\ (run.c /\ run.i = 1 /\ run.j = 0) => Doc.root = run.pre[1]
    /\ (run.c /\ run.i = 1 /\ run.j = 1) => Doc.root = run.new[1]
    /\ (run.i > 0 /\ run.j = run.i) =>
            /\ Doc.root = run.base[1].root
            /\ Doc.undoStack = run.base[1].undoStack

\* commit, undo, redo done with a full undoStack
C4_Witness ==
    run.c /\ run.i = 1 /\ run.j = 1 /\ Len(Doc.undoStack) = HistoryLimit

\* C5: undoStack and redoStack never hold more than 50 snapshots.
C5_Bounded ==
    /\ Len(Doc.undoStack) <= HistoryLimit
    /\ Len(Doc.redoStack) <= HistoryLimit

\* a redo has just pushed the 50th entry onto undoStack
C5_Witness == lastOp = "redo" /\ run.j > 0 /\ Len(Doc.undoStack) = HistoryLimit

\* C6: after n > 50 consecutive commits undoStack is the 50 most recent
\* pre-commit roots in commit order; the j-th undo restores the j-th newest of
\* them; the 51st undo changes nothing and no older root comes back.
C6_BoundEnforcement ==
    LET n == Len(log)
    IN  (n > HistoryLimit) =>
          /\ lastOp = "commit" =>
                Doc.undoStack = SubSeq(log, n - HistoryLimit + 1, n)
          /\ (undone \in 1..HistoryLimit) =>
                /\ Doc.root = log[n - undone + 1]
                /\ Doc.undoStack = SubSeq(log, n - HistoryLimit + 1, n - undone)
          /\ (undone > HistoryLimit) =>
                /\ Doc.root = log[n - HistoryLimit + 1]
                /\ Doc.undoStack = <<>>

\* the 51st undo after 52 commits
C6_Witness == Len(log) > HistoryLimit + 1 /\ undone > HistoryLimit

----------------------------------------------------------------------------
(* The trees and buffers the codec specification runs on *)

\* min, max, 2^53 + 1, -(2^53 + 1), -1, -2^31 (negative, low half's top bit set),
\* 2^32 - 1, 0, a positive and a negative value with mixed halves
LongValues ==
    << <<-2147483647 - 1, 0, 0>>, <<2147483647, 65535, 65535>>, <<2097152, 0, 1>>,
       <<-2097153, 65535, 65535>>, <<-1, 65535, 65535>>, <<-1, 32768, 0>>,
       <<0, 65535, 65535>>, <<0, 0, 0>>, <<5, 32768, 1>>, <<-5, 40000, 7>> >>

\* doubles that are exact singles: 0, 1.5, -2, fround(0.1), 2^-149, Infinity, NaN
SingleValues ==
    << <<0, 0, 0, 0, 0, 0, 0, 0>>, <<63, 248, 0, 0, 0, 0, 0, 0>>,
       <<192, 0, 0, 0, 0, 0, 0, 0>>, <<63, 185, 153, 153, 160, 0, 0, 0>>,
       <<54, 160, 0, 0, 0, 0, 0, 0>>, <<127, 240, 0, 0, 0, 0, 0, 0>>, NaN64 >>
\* 0.1 and -0 as doubles
DoubleValues ==
    SingleValues \o << <<63, 185, 153, 153, 153, 153, 153, 154>>,
                       <<128, 0, 0, 0, 0, 0, 0, 0>> >>

\* "", "A", e-acute and the euro sign, U+FEFF then "A", U+1F600, U+0000
StringValues ==
    << <<>>, <<65>>, <<233, 8364>>, <<65279, 65>>, <<55357, 56832>>, <<0>> >>

Payload(type, value) == [type |-> type, value |-> value]

Payloads ==
    << Payload(TagType_Byte, Num(-128)), Payload(TagType_Byte, Num(127)),
       Payload(TagType_Short, Num(-32768)), Payload(TagType_Short, Num(258)),
       Payload(TagType_Int, Num(5)), Payload(TagType_Int, Num(-2147483647 - 1)),
       Payload(TagType_Int, Num(16909060)) >>
    \o [i \in 1..Len(LongValues) |-> Payload(TagType_Long, Big(LongValues[i]))]
    \o [i \in 1..Len(SingleValues) |-> Payload(TagType_Float, F64(SingleValues[i]))]
    \o [i \in 1..Len(DoubleValues) |-> Payload(TagType_Double, F64(DoubleValues[i]))]
    \o [i \in 1..Len(StringValues) |-> Payload(TagType_String, Str(StringValues[i]))]
    \o << Payload(TagType_ByteArray, Numbers(<<>>)),
          Payload(TagType_ByteArray, Numbers(<<-128, 127, 0>>)),
          Payload(TagType_IntArray, Numbers(<<>>)),
          Payload(TagType_IntArray, Numbers(<<-1, 2147483647>>)),
          Payload(TagType_LongArray, BigInts(<<>>)),
          Payload(TagType_LongArray, BigInts(SubSeq(LongValues, 1, ListLen))),
          Payload(TagType_LongArray, BigInts(SubSeq(LongValues, 5, 4 + ListLen))),
          Payload(TagType_List, ListObj(TagType_End, <<>>)),
          Payload(TagType_List, ListObj(TagType_Byte, <<>>)),
          Payload(TagType_List, ListObj(TagType_Compound, <<>>)),
          Payload(TagType_Compound, Tags(<<>>)) >>

Named(p, n) == NBTTag(p.type, Str(n), p.value)
Unnamed(p) == NBTTag(p.type, Null, p.value)
ListOf(p) == ListObj(p.type, [i \in 1..ListLen |-> Unnamed(p)])

\* every payload as the root, as a Compound child, as the elements of a List,
\* below a List of Compounds, and below a List of Lists
TreesOf(p) ==
    << Named(p, <<>>),
       NBTTag(TagType_Compound, Str(<<>>),
              Tags(<<Named(p, <<97>>),
                     NBTTag(TagType_Int, Str(XpLevel), Num(5))>>)),
       NBTTag(TagType_List, Str(<<76>>), ListOf(p)),
       NBTTag(TagType_Compound, Str(<<233>>),
              Tags(<<NBTTag(TagType_List, Str(<<108>>),
                            ListObj(TagType_Compound,
                                    <<NBTTag(TagType_Compound, Null,
                                             Tags(<<Named(p, <<120>>), Named(p, <<120>>)>>)),
                                      NBTTag(TagType_Compound, Null, Tags(<<>>))>>))>>)),
       NBTTag(TagType_List, Str(<<>>),
              ListObj(TagType_List,
                      <<NBTTag(TagType_List, Null, ListOf(p)),
                        NBTTag(TagType_List, Null, ListObj(TagType_End, <<>>))>>)) >>

Trees == ConcatAll([i \in 1..Len(Payloads) |-> TreesOf(Payloads[i])])

\* the specification's example: Compound "" { Int "XpLevel" = 5 }, End
ExampleBytes == <<10, 0, 0, 3, 0, 7>> \o XpLevel \o <<0, 0, 0, 5, 0>>

\* well-formed uncompressed buffers: an End root; the example; an empty
\* Compound; Byte -1; a String named U+FEFF "A"; an empty List of End; Float 1.5;
\* Long min; a Compound holding a List of two Shorts and a String; an IntArray
WellFormedBuffers ==
    << <<0>>,
       ExampleBytes,
       <<10, 0, 0, 0>>,
       <<1, 0, 0, 255>>,
       <<8, 0, 4, 239, 187, 191, 65, 0, 0>>,
       <<9, 0, 0, 0, 0, 0, 0, 0>>,
       <<5, 0, 0, 63, 192, 0, 0>>,
       <<4, 0, 0, 128, 0, 0, 0, 0, 0, 0, 0>>,
       <<10, 0, 1, 82, 9, 0, 1, 108, 2, 0, 0, 0, 2, 255, 254, 0, 7,
         8, 0, 1, 115, 0, 2, 195, 169, 0>>,
       <<11, 0, 1, 73, 0, 0, 0, 2, 255, 255, 255, 255, 0, 0, 1, 0>> >>

\* trailing bytes, a negative IntArray length, an unknown kind, an ill-formed
\* UTF-8 name, truncated buffers, gzip frames sound and broken
OtherBuffers ==
    << <<0, 5>>,
       <<11, 0, 0, 255, 255, 255, 255>>,
       <<13, 0, 0>>,
       <<1, 0, 1, 255, 7>>,
       <<>>,
       gzip(ExampleBytes),
       gzip(<<0>>),
       SubSeq(gzip(ExampleBytes), 1, Len(ExampleBytes) + 4),
       <<31, 139, 8>> \o ExampleBytes \o <<0, 0>>,
       <<31, 139, 9>> \o ExampleBytes \o <<SumBytes(ExampleBytes), Len(ExampleBytes)>>,
       <<31, 139>>,
       <<31, 139>> \o ExampleBytes,
       <<31, 0, 0, 0>>,
       <<139, 31, 8, 0, 0, 0>> >>
    \o [i \in 1..(Len(ExampleBytes) - 1) |-> SubSeq(ExampleBytes, 1, i)]

Alphabet == <<0, 1, 10, 31, 139>>
RECURSIVE Pow(_, _)
Pow(b, n) == IF n <= 0 THEN 1 ELSE b * Pow(b, n - 1)
\* the n-th buffer of length len over Alphabet
ShortBuffer(len, n) ==
    [i \in 1..len |-> Alphabet[((n \div Pow(Len(Alphabet), i - 1)) % Len(Alphabet)) + 1]]
ShortBuffers ==
    ConcatAll([len \in 1..ShortLen |->
                 [n \in 1..Pow(Len(Alphabet), len) |-> ShortBuffer(len, n - 1)]])

\* a List whose declared element kind is End and whose count is not zero: as
\* the root (count 1, count 2), below a Compound, and gzip-framed
EndListBuffers ==
    << <<9, 0, 0, 0, 0, 0, 0, 1>>,
       <<9, 0, 1, 76, 0, 0, 0, 0, 2>>,
       <<10, 0, 0, 9, 0, 1, 108, 0, 0, 0, 0, 1, 0>>,
       gzip(<<9, 0, 0, 0, 0, 0, 0, 1>>) >>

\* a negative 4-byte length: ByteArray, IntArray, LongArray and List with -1,
\* the same four with -2^31, and a List of -1 Ints below a Compound
NegativeLengthBuffers ==
    << <<7, 0, 0, 255, 255, 255, 255>>,
       <<11, 0, 0, 255, 255, 255, 255>>,
       <<12, 0, 0, 255, 255, 255, 255>>,
       <<9, 0, 0, 1, 255, 255, 255, 255>>,
       <<7, 0, 0, 128, 0, 0, 0>>,
       <<11, 0, 0, 128, 0, 0, 0>>,
       <<12, 0, 0, 128, 0, 0, 0>>,
       <<9, 0, 0, 10, 128, 0, 0, 0>>,
       <<10, 0, 0, 9, 0, 1, 108, 3, 255, 255, 255, 255, 0>>,
       <<10, 0, 0, 7, 0, 1, 98, 255, 255, 255, 255, 0>> >>

\* a kind byte outside 0..12: as the root kind (13, 255), as the kind of a
\* Compound's child, as a List's declared element kind (count 2, count 0, and
\* below a Compound), and gzip-framed
UnknownKindBuffers ==
    << <<13, 0, 0>>,
       <<255, 0, 1, 120>>,
       <<10, 0, 0, 13, 0, 1, 117, 1, 0, 1, 98, 5, 0>>,
       <<9, 0, 0, 13, 0, 0, 0, 2>>,
       <<9, 0, 0, 13, 0, 0, 0, 0>>,
       <<10, 0, 0, 9, 0, 1, 108, 200, 0, 0, 0, 1, 0>>,
       gzip(<<10, 0, 0, 13, 0, 1, 117, 0>>) >>

Range(s) == {s[i] : i \in DOMAIN s}

Buffers ==
    WellFormedBuffers \o OtherBuffers \o ShortBuffers
        \o EndListBuffers \o NegativeLengthBuffers \o UnknownKindBuffers

HistIdle ==
    /\ files = <<>> /\ activeFileId = 0 /\ lastOp = "open" /\ hadRedo = FALSE
    /\ log = <<>> /\ undone = 0 /\ run = NoRun

InitCodec ==
    /\ HistIdle
    /\ AppIdle
    /\ compress = FALSE /\ out = <<>> /\ res = <<>>
    /\ \/ \E i \in 1..Len(Trees) :
            cpc = "tree" /\ src = i /\ tree = Trees[i] /\ bytes = <<>>
       \/ \E j \in 1..Len(Buffers) :
            cpc = "buffer" /\ src = j /\ bytes = Buffers[j] /\ tree = <<>>

\* handleSaveFile: NBTWriter.write(file.root, file.isCompressed)
Write ==
    /\ cpc = "tree"
    /\ \E c \in BOOLEAN : compress' = c /\ out' = write(tree, c)
    /\ cpc' = "encoded"
    /\ UNCHANGED <<src, tree, bytes, res, histVars, appVars>>

\* handleFileUpload on the saved file: NBTParser.parse
ParseWritten ==
    /\ cpc = "encoded"
    /\ bytes' = out
    /\ res' = parse(out)
    /\ cpc' = "decoded"
    /\ UNCHANGED <<src, tree, compress, out, histVars, appVars>>

\* handleFileUpload on a file from disk: NBTParser.parse
ParseBuffer ==
    /\ cpc = "buffer"
    /\ res' = parse(bytes)
    /\ cpc' = "parsed"
    /\ UNCHANGED <<src, tree, compress, out, bytes, histVars, appVars>>

\* saving the unedited document without compression
WriteParsed ==
    /\ cpc = "parsed"
    /\ res.ok
    /\ tree' = res.root[1]
    /\ out' = write(res.root[1], FALSE)
    /\ cpc' = "reencoded"
    /\ UNCHANGED <<src, compress, bytes, res, histVars, appVars>>

NextCodec == Write \/ ParseWritten \/ ParseBuffer \/ WriteParsed

SpecCodec == InitCodec /\ [][NextCodec]_vars

----------------------------------------------------------------------------
(* Codec claims *)

\* C7: decoding what the encoder produced for a well-formed tree yields a tree
\* structurally equal to it, with and without gzip.
C7_RoundTrip ==
    cpc = "decoded" => (res.ok /\ res.root = <<tree>>)

\* C8: a well-formed uncompressed buffer that decodes is reproduced byte for
\* byte by encoding the decoded tree without compression.
C8_ByteExact ==
    (cpc = "reencoded" /\ src <= Len(WellFormedBuffers)) => out = bytes

\* all Long and LongArray values of a tree, in pre-order
RECURSIVE LongsOf(_)
LongsOf(tag) ==
    CASE tag.type = TagType_Long -> <<tag.value.v>>
      [] tag.type = TagType_LongArray -> tag.value.v
      [] tag.type = TagType_Compound ->
            ConcatAll([i \in 1..Len(tag.value.v) |-> LongsOf(tag.value.v[i])])
      [] tag.type = TagType_List ->
            ConcatAll([i \in 1..Len(tag.value.v.list) |-> LongsOf(tag.value.v.list[i])])
      [] OTHER -> <<>>

\* the eight bytes of the 64-bit two's complement of <<hi, mid, lo>>
LongBytes(x) ==
    <<(x[1] \div 16777216) % 256, (x[1] \div 65536) % 256, (x[1] \div 256) % 256,
      x[1] % 256, x[2] \div 256, x[2] % 256, x[3] \div 256, x[3] % 256>>

\* C9: every 64-bit value written as a Long or a LongArray element is read
\* back exactly, and a Long is written as its eight two's complement bytes.
C9_LongFidelity ==
    /\ cpc = "decoded" => (res.ok /\ LongsOf(res.root[1]) = LongsOf(tree))
    /\ (cpc = "encoded" /\ ~compress /\ tree.type = TagType_Long) =>
            out = <<TagType_Long, 0, 0>> \o LongBytes(tree.value.v)

\* the negative value whose low half has its top bit set, read back
C9_Witness ==
    /\ cpc = "decoded" /\ tree.type = TagType_Long
    /\ tree.value.v = <<-1, 32768, 0>>
    /\ res.root[1].value.v = <<-1, 32768, 0>>

HasMagic(b) == Len(b) >= 2 /\ b[1] = 31 /\ b[2] = 139

\* C10: the decoder decompresses exactly the buffers that start with 1F 8B and
\* reports isCompressed exactly for them; a gzip-flagged buffer that does not
\* decompress fails the decode without the raw bytes being parsed.
C10_GzipDetection ==
    cpc \in {"decoded", "parsed"} =>
        /\ res.ungzipCalled <=> HasMagic(bytes)
        /\ res.ok => (res.isCompressed <=> HasMagic(bytes))
        /\ (HasMagic(bytes) /\ ~ungzip(bytes).ok) => (~res.ok /\ res.parsed = <<>>)
        /\ (HasMagic(bytes) /\ ungzip(bytes).ok) => res.parsed = <<ungzip(bytes).data>>
        /\ ~HasMagic(bytes) => res.parsed = <<bytes>>

\* a gzip-flagged buffer whose trailer is wrong was refused
C10_Witness ==
    /\ cpc = "parsed" /\ HasMagic(bytes) /\ Len(bytes) > 5
    /\ ~ungzip(bytes).ok /\ ~res.ok

\* C11: decoding a List that declares element kind End with a count other than
\* zero fails; no tree is returned.
C11_EndListFatal ==
    (cpc = "parsed" /\ bytes \in Range(EndListBuffers)) => (~res.ok /\ res.root = <<>>)

\* C12: decoding a ByteArray, IntArray, LongArray or List whose length is
\* negative fails; no tree holding an empty array or list in its place is returned.
C12_NegativeLengthFatal ==
    (cpc = "parsed" /\ bytes \in Range(NegativeLengthBuffers)) =>
        (~res.ok /\ res.root = <<>>)

----------------------------------------------------------------------------
(* Paths.  A path is a string, held as its sequence of UTF-16 code units.   *)

\* 'root'
PathRoot == <<114, 111, 111, 116>>

\* String(n) for an array index n
RECURSIVE Digits(_)
Digits(n) == IF n < 10 THEN <<48 + n>> ELSE Digits(n \div 10) \o <<48 + (n % 10)>>

\* what a template literal makes of tag.name: the text, or 'null'
NameText(name) ==
    IF name.k = "string" THEN name.v
    ELSE IF name.k = "null" THEN <<110, 117, 108, 108>>
    ELSE <<117, 110, 100, 101, 102, 105, 110, 101, 100>>

\* a call that ended in a TypeError, and a call that returned v
TypeError == [ok |-> FALSE, v |-> <<>>]
Ret(v) == [ok |-> TRUE, v |-> v]

(* treeUtils: flattenTree.  forEach is not defined on a value that is not   *)
(* an array, nor is .list on a value that is not the List payload.          *)
RECURSIVE flattenTree(_, _)
RECURSIVE FlattenEach(_, _, _, _, _)
\* the paths of a child are put in front of those collected so far
FlattenEach_Prepend(children, parentPath, isList, i, paths) ==
    IF i > Len(children) THEN Ret(paths)
    ELSE LET child == children[i]
             r == flattenTree(child,
                              IF isList
                              THEN parentPath \o <<91>> \o Digits(i - 1) \o <<93>>
                              ELSE parentPath \o <<46>> \o NameText(child.name))
         IN  IF ~r.ok THEN TypeError
             ELSE FlattenEach(children, parentPath, isList, i + 1, r.v \o paths)
\* children.forEach((child, idx) => paths = paths.concat(flattenTree(child, ...)))
FlattenEach(children, parentPath, isList, i, paths) ==
    IF i > Len(children) THEN Ret(paths)
    ELSE LET child == children[i]
             r == flattenTree(child,
                              IF isList
                              THEN parentPath \o <<91>> \o Digits(i - 1) \o <<93>>
                              ELSE parentPath \o <<46>> \o NameText(child.name))
         IN  IF ~r.ok THEN TypeError
             ELSE FlattenEach(children, parentPath, isList, i + 1, paths \o r.v)
flattenTree(tag, parentPath) ==
    IF tag.type = TagType_Compound
    THEN IF tag.value.k # "tags" THEN TypeError
         ELSE FlattenEach(tag.value.v, parentPath, FALSE, 1, <<parentPath>>)
    ELSE IF tag.type = TagType_List
         THEN IF tag.value.k # "object" THEN TypeError
              ELSE FlattenEach(tag.value.v.list, parentPath, TRUE, 1, <<parentPath>>)
         ELSE Ret(<<parentPath>>)

(* treeUtils: deleteNodesByPaths.  recursiveDelete returns <<>> for null.   *)
RECURSIVE recursiveDelete(_, _, _)
RECURSIVE DeleteEach(_, _, _, _, _, _)
\* the indices of a list are taken from the surviving elements
DeleteEach_ShiftedIndex(children, currentPath, isList, i, kept, pathsToDelete) ==
    IF i > Len(children) THEN Ret(kept)
    ELSE LET child == children[i]
             r == recursiveDelete(child,
                                  IF isList
                                  THEN currentPath \o <<91>> \o Digits(Len(kept)) \o <<93>>
                                  ELSE currentPath \o <<46>> \o NameText(child.name),
                                  pathsToDelete)
         IN  IF ~r.ok THEN TypeError
             ELSE DeleteEach(children, currentPath, isList, i + 1, kept \o r.v,
                             pathsToDelete)
\* children.map((child, idx) => recursiveDelete(child, ...)).filter(c => c !== null)
DeleteEach(children, currentPath, isList, i, kept, pathsToDelete) ==
    IF i > Len(children) THEN Ret(kept)
    ELSE LET child == children[i]
             r == recursiveDelete(child,
                                  IF isList
                                  THEN currentPath \o <<91>> \o Digits(i - 1) \o <<93>>
                                  ELSE currentPath \o <<46>> \o NameText(child.name),
                                  pathsToDelete)
         IN  IF ~r.ok THEN TypeError
             ELSE DeleteEach(children, currentPath, isList, i + 1, kept \o r.v,
                             pathsToDelete)
recursiveDelete(tag, currentPath, pathsToDelete) ==
    IF currentPath \in pathsToDelete THEN Ret(<<>>)
    ELSE IF tag.type = TagType_Compound
         THEN IF tag.value.k # "tags" THEN TypeError
              ELSE LET newValue == DeleteEach(tag.value.v, currentPath, FALSE, 1, <<>>,
                                              pathsToDelete)
                   IN  IF ~newValue.ok THEN TypeError
                       ELSE Ret(<<[tag EXCEPT !.value = Tags(newValue.v)]>>)
         ELSE IF tag.type = TagType_List
              THEN IF tag.value.k # "object" THEN TypeError
                   ELSE LET newList == DeleteEach(tag.value.v.list, currentPath, TRUE, 1,
                                                  <<>>, pathsToDelete)
                        IN  IF ~newList.ok THEN TypeError
                            ELSE Ret(<<[tag EXCEPT !.value =
                                            ListObj(tag.value.v.itemType, newList.v)]>>)
              ELSE Ret(<<tag>>)

\* the array literal [] as the value of a tag of the given kind
EmptyArray(type) ==
    IF type \in {TagType_ByteArray, TagType_IntArray} THEN Numbers(<<>>)
    ELSE IF type = TagType_LongArray THEN BigInts(<<>>)
    ELSE Tags(<<>>)

\* a deleted root comes back with an empty array for its value
deleteNodesByPaths(root, pathsToDelete) ==
    LET result == recursiveDelete(cloneTag(root), PathRoot, pathsToDelete)
    IN  IF ~result.ok THEN TypeError
        ELSE IF result.v = <<>> THEN Ret([root EXCEPT !.value = EmptyArray(root.type)])
        ELSE Ret(result.v[1])

----------------------------------------------------------------------------
(* The text the edit fields hold, and the conversions handleSave applies    *)

\* '[object Object]'
ObjectText == <<91, 111, 98, 106, 101, 99, 116, 32, 79, 98, 106, 101, 99, 116, 93>>

\* Number.prototype.toString for an integer
IntText(n) == IF n < 0 THEN <<45>> \o Digits(-n) ELSE Digits(n)

RECURSIVE Join(_)
\* Array.prototype.join(',') over texts
Join(texts) ==
    IF Len(texts) = 0 THEN <<>>
    ELSE IF Len(texts) = 1 THEN texts[1]
    ELSE texts[1] \o <<44>> \o Join(Tail(texts))

\* tag.value.toString(), for the values a container, an Int or a text holds
toString(val) ==
    CASE val.k = "string" -> val.v
      [] val.k = "int" -> IntText(val.v)
      [] val.k = "object" -> ObjectText
      [] val.k = "tags" -> Join([i \in 1..Len(val.v) |-> ObjectText])
      [] val.k = "numbers" -> Join([i \in 1..Len(val.v) |-> IntText(val.v[i])])

IsWhiteSpace(c) == c \in {9, 10, 11, 12, 13, 32, 160, 65279}
IsDigit(c) == c >= 48 /\ c <= 57

RECURSIVE TrimStart(_)
TrimStart(str) ==
    IF Len(str) > 0 /\ IsWhiteSpace(str[1]) THEN TrimStart(Tail(str)) ELSE str
RECURSIVE TrimEnd(_)
TrimEnd(str) ==
    IF Len(str) > 0 /\ IsWhiteSpace(str[Len(str)])
    THEN TrimEnd(SubSeq(str, 1, Len(str) - 1)) ELSE str

\* the longest prefix of decimal digits
RECURSIVE DigitPrefix(_)
DigitPrefix(str) ==
    IF Len(str) > 0 /\ IsDigit(str[1]) THEN <<str[1]>> \o DigitPrefix(Tail(str)) ELSE <<>>
RECURSIVE DigitsValue(_)
DigitsValue(ds) ==
    IF Len(ds) = 0 THEN 0 ELSE DigitsValue(SubSeq(ds, 1, Len(ds) - 1)) * 10 + (ds[Len(ds)] - 48)

HasSign(str) == Len(str) > 0 /\ str[1] \in {43, 45}
Unsigned(str) == IF HasSign(str) THEN Tail(str) ELSE str
SignOf(str) == IF Len(str) > 0 /\ str[1] = 45 THEN -1 ELSE 1

NaN == [k |-> "nan", v |-> 0]

\* parseInt(str), radix 10: white space, a sign, then the digits up to the
\* first character that is not one; NaN without a digit
parseInt(str) ==
    LET t == TrimStart(str)
        ds == DigitPrefix(Unsigned(t))
    IN  IF Len(ds) = 0 THEN NaN ELSE Num(SignOf(t) * DigitsValue(ds))

\* BigInt(str): the whole trimmed text must be an optionally signed run of
\* digits (the empty text is 0n); anything else is a SyntaxError
StringToBigInt(str) ==
    LET t == TrimEnd(TrimStart(str))
        ds == DigitPrefix(Unsigned(t))
    IN  IF Len(t) = 0 THEN Ret(Big(BigIntOf(0)))
        ELSE IF Len(ds) = 0 \/ Len(ds) # Len(Unsigned(t)) THEN TypeError
        ELSE Ret(Big(BigIntOf(SignOf(t) * DigitsValue(ds))))

\* the double m / 2, for an integer m of at most 24 bits
HalvesToF64(sign, m) ==
    IF m = 0 THEN Pack64(sign, 0, 0)
    ELSE LET len == BitLength(m)
         IN  Pack64(sign, 1023 + len - 2, (m - Pow2(len - 1)) * Pow2(24 - len))

\* parseFloat(str): white space, a sign, digits, an optional fraction; NaN
\* without a digit.  Fractions are converted for the one-digit fractions .0 and
\* .5, the texts without an exponent the edit field is given here.
parseFloat(str) ==
    LET t == TrimStart(str)
        u == Unsigned(t)
        ds == DigitPrefix(u)
        rest == SubSeq(u, Len(ds) + 1, Len(u))
        fs == IF Len(rest) > 0 /\ rest[1] = 46 THEN DigitPrefix(Tail(rest)) ELSE <<>>
        half == IF Len(fs) > 0 /\ fs[1] = 53 THEN 1 ELSE 0
    IN  IF Len(ds) = 0 /\ Len(fs) = 0 THEN NaN
        ELSE F64(HalvesToF64(IF SignOf(t) < 0 THEN 1 ELSE 0, 2 * DigitsValue(ds) + half))

----------------------------------------------------------------------------
(* NBTNode.  A node of the rendered tree is addressed by loc, the sequence  *)
(* of (1-based) child positions from the root; its handlers close over the   *)
(* `tag` it renders and the onUpdate prop its parent handed down.            *)

Front(s) == SubSeq(s, 1, Len(s) - 1)
Last(s) == s[Len(s)]

\* the children a node maps to child NBTNodes when expanded
ChildTags(tag) ==
    IF tag.type = TagType_Compound /\ tag.value.k = "tags" THEN tag.value.v
    ELSE IF tag.type = TagType_List /\ tag.value.k = "object" THEN tag.value.v.list
    ELSE <<>>

\* [TagType.Compound, TagType.List].includes(tag.type)
isContainer(tag) == tag.type \in {TagType_Compound, TagType_List}

RECURSIVE NodeAt(_, _)
NodeAt(tag, loc) ==
    IF Len(loc) = 0 THEN tag ELSE NodeAt(ChildTags(tag)[loc[1]], Tail(loc))

RECURSIVE Locs(_)
Locs(tag) ==
    {<<>>} \cup UNION {{<<i>> \o l : l \in Locs(ChildTags(tag)[i])} :
                          i \in 1..Len(ChildTags(tag))}

\* the `path` prop: 'root' for the root node, `${path}.${child.name}` below a
\* Compound and `${path}[${idx}]` below a List
RECURSIVE NodePath(_, _)
NodePath(root, loc) ==
    IF Len(loc) = 0 THEN PathRoot
    ELSE LET parent == NodeAt(root, Front(loc))
         IN  IF parent.type = TagType_Compound
             THEN NodePath(root, Front(loc)) \o <<46>>
                      \o NameText(ChildTags(parent)[Last(loc)].name)
             ELSE NodePath(root, Front(loc)) \o <<91>> \o Digits(Last(loc) - 1) \o <<93>>

\* root with the node at loc replaced by tag
RECURSIVE ReplaceAt(_, _, _)
ReplaceAt(root, loc, tag) ==
    IF Len(loc) = 0 THEN tag
    ELSE LET sub == ReplaceAt(ChildTags(root)[loc[1]], Tail(loc), tag)
         IN  IF root.type = TagType_Compound
             THEN [root EXCEPT !.value = Tags([root.value.v EXCEPT ![loc[1]] = sub])]
             ELSE [root EXCEPT !.value =
                      ListObj(root.value.v.itemType,
                              [root.value.v.list EXCEPT ![loc[1]] = sub])]

\* What a handler did: threw (ok = FALSE), or returned after handing `v`
\* (<<newRoot>>, or <<>> when nothing was handed over) to the App's
\* updateActiveFileRoot.  `input` is the root object the handler's tag belongs
\* to, as it is when the handler returns: the handlers work on copies
\* ([...x]), so it is the root they were given.
Threw(input) == [ok |-> FALSE, v |-> <<>>, input |-> input]
Handed(v, input) == [ok |-> TRUE, v |-> v, input |-> input]

\* [...val] is defined for arrays and for text
Iterable(val) == val.k \in {"numbers", "bigints", "tags", "string"}
\* [...val]
Spread(val) == IF val.k = "string" THEN [i \in 1..Len(val.v) |-> Str(<<val.v[i]>>)] ELSE val.v

\* arr.splice(index, 1) on a copy
Splice(arr, index) ==
    IF index + 1 > Len(arr) THEN arr
    ELSE SubSeq(arr, 1, index) \o SubSeq(arr, index + 2, Len(arr))

RECURSIVE onUpdate(_, _, _)
RECURSIVE handleChildUpdate(_, _, _, _)

\* the onUpdate prop of the node at loc: the App's updateActiveFileRoot for
\* the root node, the parent's handleChildUpdate(idx, .) for any other
onUpdate(root, loc, updatedTag) ==
    IF Len(loc) = 0 THEN Handed(<<updatedTag>>, root)
    ELSE handleChildUpdate(root, Front(loc), Last(loc) - 1, updatedTag)

\* the List branch is reached with an iterable value only
handleChildUpdate(root, loc, index, updatedChild) ==
    LET tag == NodeAt(root, loc)
    IN  IF ~Iterable(tag.value) THEN Threw(root)
        ELSE IF tag.type = TagType_List
             THEN IF tag.value.k # "object" THEN Threw(root)
                  ELSE onUpdate(root, loc,
                                [tag EXCEPT !.value =
                                    ListObj(tag.value.v.itemType,
                                            [tag.value.v.list EXCEPT ![index + 1] =
                                                 updatedChild])])
             ELSE IF tag.type = TagType_Compound
                  THEN onUpdate(root, loc,
                                [tag EXCEPT !.value =
                                    Tags([Spread(tag.value) EXCEPT ![index + 1] =
                                              updatedChild])])
                  ELSE Handed(<<>>, root)

\* splice is applied to tag.value.list itself: the rendered tree changes too
handleChildDelete_InPlace(root, loc, index) ==
    LET tag == NodeAt(root, loc)
        newTag == IF tag.type = TagType_List
                  THEN [tag EXCEPT !.value = ListObj(tag.value.v.itemType,
                                                     Splice(tag.value.v.list, index))]
                  ELSE [tag EXCEPT !.value = Tags(Splice(tag.value.v, index))]
        r == onUpdate(root, loc, newTag)
    IN  [r EXCEPT !.input = ReplaceAt(root, loc, newTag)]
handleChildDelete(root, loc, index) ==
    LET tag == NodeAt(root, loc)
    IN  IF tag.type = TagType_List
        THEN IF tag.value.k # "object" THEN Threw(root)
             ELSE onUpdate(root, loc,
                           [tag EXCEPT !.value =
                               ListObj(tag.value.v.itemType,
                                       Splice(tag.value.v.list, index))])
        ELSE IF tag.type = TagType_Compound
             THEN IF ~Iterable(tag.value) THEN Threw(root)
                  ELSE onUpdate(root, loc,
                                [tag EXCEPT !.value = Tags(Splice(Spread(tag.value), index))])
             ELSE Handed(<<>>, root)

\* a List gets the child a Compound gets
handleAddChild_StringChild(root, loc) ==
    LET tag == NodeAt(root, loc)
        newTag == NBTTag(TagType_String, Str(<<110, 101, 119, 95, 116, 97, 103>>),
                         Str(<<118, 97, 108, 117, 101>>))
    IN  IF tag.type = TagType_Compound
        THEN IF ~Iterable(tag.value) THEN Threw(root)
             ELSE onUpdate(root, loc,
                           [tag EXCEPT !.value = Tags(Append(Spread(tag.value), newTag))])
        ELSE IF tag.type = TagType_List
             THEN IF tag.value.k # "object" THEN Threw(root)
                  ELSE onUpdate(root, loc,
                                [tag EXCEPT !.value =
                                    ListObj(tag.value.v.itemType,
                                            Append(tag.value.v.list, newTag))])
             ELSE Handed(<<>>, root)

\* the parentType argument is not read
handleAddChild(root, loc) ==
    LET tag == NodeAt(root, loc)
    IN  IF tag.type = TagType_Compound
        THEN IF ~Iterable(tag.value) THEN Threw(root)
             ELSE LET newTag == NBTTag(TagType_String,
                                       Str(<<110, 101, 119, 95, 116, 97, 103>>),
                                       Str(<<118, 97, 108, 117, 101>>))
                  IN  onUpdate(root, loc,
                               [tag EXCEPT !.value = Tags(Append(Spread(tag.value), newTag))])
        ELSE IF tag.type = TagType_List
             THEN IF tag.value.k # "object" THEN Threw(root)
                  ELSE LET it == tag.value.v.itemType
                           defaultValue ==
                               IF it = TagType_Compound THEN Tags(<<>>)
                               ELSE IF it = TagType_String THEN Str(<<>>)
                               ELSE Num(0)
                           newTag == NBTTag(it, Null, defaultValue)
                       IN  onUpdate(root, loc,
                                    [tag EXCEPT !.value =
                                        ListObj(it, Append(tag.value.v.list, newTag))])
             ELSE Handed(<<>>, root)

\* the name a node's edit field starts from: tag.name || ''
InitialEditName(tag) == IF tag.name.k = "string" THEN tag.name.v ELSE <<>>

\* the isNaN tests are left out: a text that is not a number is stored as NaN
handleSave_StoreNaN(root, loc, editName, editValue) ==
    LET tag == NodeAt(root, loc)
        big == StringToBigInt(editValue)
        parsed ==
            CASE tag.type \in {TagType_Byte, TagType_Short, TagType_Int} ->
                    Ret(parseInt(editValue))
              [] tag.type = TagType_Long -> big
              [] tag.type \in {TagType_Float, TagType_Double} -> Ret(parseFloat(editValue))
              [] OTHER -> Ret(Str(editValue))
    IN  IF ~parsed.ok THEN Handed(<<>>, root)
        ELSE LET r == onUpdate(root, loc,
                               [tag EXCEPT !.name = Str(editName), !.value = parsed.v])
             IN  IF r.ok THEN r ELSE Handed(<<>>, r.input)

\* every throw inside the try block, that of the parents' handlers included,
\* ends in the catch: nothing is handed over
handleSave(root, loc, editName, editValue) ==
    LET tag == NodeAt(root, loc)
        int == parseInt(editValue)
        big == StringToBigInt(editValue)
        flt == parseFloat(editValue)
        parsed ==
            CASE tag.type \in {TagType_Byte, TagType_Short, TagType_Int} ->
                    IF int.k = "nan" THEN TypeError ELSE Ret(int)
              [] tag.type = TagType_Long -> big
              [] tag.type \in {TagType_Float, TagType_Double} ->
                    IF flt.k = "nan" THEN TypeError ELSE Ret(flt)
              [] OTHER -> Ret(Str(editValue))
    IN  IF ~parsed.ok THEN Handed(<<>>, root)
        ELSE LET r == onUpdate(root, loc,
                               [tag EXCEPT !.name = Str(editName), !.value = parsed.v])
             IN  IF r.ok THEN r ELSE Handed(<<>>, r.input)

----------------------------------------------------------------------------
(* Rendering.  An exception thrown while a row renders unmounts the App;    *)
(* nothing can be clicked any more.                                         *)

IsTag(x) == DOMAIN x = {"type", "name", "value"}
HasValue(tag) == tag.value.k \notin {"null", "undefined"}

\* the row of a node renders: TagTypeNames[...] is defined where it is split
\* and renderValue finds the length or the toString it reads
RowOk(tag) ==
    /\ IsTag(tag)
    /\ tag.type \in TagType_End..TagType_LongArray
    /\ IF tag.type = TagType_List
       THEN /\ tag.value.k = "object"
            /\ tag.value.v.itemType \in TagType_End..TagType_LongArray
       ELSE HasValue(tag)

\* an expanded container maps its children to rows
ChildrenOk(tag) ==
    /\ IF tag.type = TagType_Compound THEN tag.value.k = "tags" ELSE tag.value.k = "object"
    /\ \A i \in 1..Len(ChildTags(tag)) : RowOk(ChildTags(tag)[i])

\* the first render of a document: useState(depth < 2) expands two levels
RECURSIVE RenderOk(_, _)
RenderOk(tag, depth) ==
    /\ RowOk(tag)
    /\ (isContainer(tag) /\ depth < 2) =>
            /\ ChildrenOk(tag)
            /\ \A i \in 1..Len(ChildTags(tag)) : RenderOk(ChildTags(tag)[i], depth + 1)

----------------------------------------------------------------------------
(* App: selection, bulk delete, opening files *)

\* Array.prototype.indexOf, 1-based; 0 stands for -1
IndexOf(arr, x) ==
    IF \E i \in DOMAIN arr : arr[i] = x
    THEN CHOOSE i \in DOMAIN arr : arr[i] = x /\ \A j \in 1..(i - 1) : arr[j] # x
    ELSE 0

Min(a, b) == IF a <= b THEN a ELSE b
Max(a, b) == IF a >= b THEN a ELSE b

\* the range is allPaths.slice(min, max): it ends before the later endpoint
handleSelect_HalfOpen(selected, lastClicked, af, path, type) ==
    CASE type = "single" -> Ret([selectedPaths |-> {path}, lastClickedPath |-> path])
      [] type = "toggle" ->
            Ret([selectedPaths |-> IF path \in selected THEN selected \ {path}
                                   ELSE selected \cup {path},
                 lastClickedPath |-> path])
      [] type = "range" ->
            IF af = <<>> \/ lastClicked = <<>>
            THEN Ret([selectedPaths |-> selected, lastClickedPath |-> lastClicked])
            ELSE LET allPaths == flattenTree(af[1].root, PathRoot)
                     startIdx == IndexOf(allPaths.v, lastClicked)
                     endIdx == IndexOf(allPaths.v, path)
                 IN  IF ~allPaths.ok THEN TypeError
                     ELSE IF startIdx = 0 \/ endIdx = 0
                          THEN Ret([selectedPaths |-> selected,
                                    lastClickedPath |-> lastClicked])
                     ELSE Ret([selectedPaths |->
                                  selected \cup {allPaths.v[i] :
                                      i \in Min(startIdx, endIdx)..(Max(startIdx, endIdx) - 1)},
                               lastClickedPath |-> lastClicked])

\* lastClickedPath null is <<>>; returns the two pieces of state it sets
handleSelect(selected, lastClicked, af, path, type) ==
    CASE type = "single" -> Ret([selectedPaths |-> {path}, lastClickedPath |-> path])
      [] type = "toggle" ->
            Ret([selectedPaths |-> IF path \in selected THEN selected \ {path}
                                   ELSE selected \cup {path},
                 lastClickedPath |-> path])
      [] type = "range" ->
            IF af = <<>> \/ lastClicked = <<>>
            THEN Ret([selectedPaths |-> selected, lastClickedPath |-> lastClicked])
            ELSE LET allPaths == flattenTree(af[1].root, PathRoot)
                     startIdx == IndexOf(allPaths.v, lastClicked)
                     endIdx == IndexOf(allPaths.v, path)
                 IN  IF ~allPaths.ok THEN TypeError
                     ELSE IF startIdx = 0 \/ endIdx = 0
                          THEN Ret([selectedPaths |-> selected,
                                    lastClickedPath |-> lastClicked])
                     ELSE Ret([selectedPaths |->
                                  selected \cup {allPaths.v[i] :
                                      i \in Min(startIdx, endIdx)..Max(startIdx, endIdx)},
                               lastClickedPath |-> lastClicked])

\* one turn of the loop: the try block pushes, the catch block does not
Pushed(newFiles, id, r) ==
    IF r.ok THEN Append(newFiles, NewFile(id, r.root[1], r.isCompressed)) ELSE newFiles

\* the first file that fails to parse ends the loop
RECURSIVE ParsedFiles_StopAtError(_, _, _)
ParsedFiles_StopAtError(buffers, firstId, newFiles) ==
    IF Len(buffers) = 0 \/ ~parse(buffers[1]).ok THEN newFiles
    ELSE ParsedFiles_StopAtError(Tail(buffers), firstId,
                                 Pushed(newFiles, firstId + Len(newFiles),
                                        parse(buffers[1])))

\* the files a request adds: one NBTFile per file that parses, in order;
\* crypto.randomUUID() is the next unused number
RECURSIVE ParsedFiles(_, _, _)
ParsedFiles(buffers, firstId, newFiles) ==
    IF Len(buffers) = 0 THEN newFiles
    ELSE ParsedFiles(Tail(buffers), firstId,
                     Pushed(newFiles, firstId + Len(newFiles), parse(buffers[1])))

\* returns the two pieces of state it sets
handleFileUpload(prev, activeId, buffers) ==
    LET newFiles == ParsedFiles(buffers, Len(prev) + 1, <<>>)
    IN  [files |-> prev \o newFiles,
         activeFileId |-> IF Len(newFiles) > 0 /\ activeId = 0 THEN newFiles[1].id
                          ELSE activeId]

----------------------------------------------------------------------------
(* The documents the editing specification works on, each decoded from a    *)
(* well-formed buffer                                                       *)

\* Compound "" { Int "a" = 1, Int "a" = 2,
\*               List "l" of Compound [ { Short "x" = 3 }, { } ] }
BufferA ==
    <<10, 0, 0,
      3, 0, 1, 97, 0, 0, 0, 1,
      3, 0, 1, 97, 0, 0, 0, 2,
      9, 0, 1, 108, 10, 0, 0, 0, 2, 2, 0, 1, 120, 0, 3, 0, 0,
      0>>
\* Compound "" { List "m" of List [ List of Byte [ 5 ] ], List "e" of End [ ],
\*               List "i" of IntArray [ ], Double "d" = 1.5 }
BufferB ==
    <<10, 0, 0,
      9, 0, 1, 109, 9, 0, 0, 0, 1, 1, 0, 0, 0, 1, 5,
      9, 0, 1, 101, 0, 0, 0, 0, 0,
      9, 0, 1, 105, 11, 0, 0, 0, 0,
      6, 0, 1, 100, 63, 248, 0, 0, 0, 0, 0, 0,
      0>>
\* List "r" of Long [ 4, 5 ]
BufferC ==
    <<9, 0, 1, 114, 4, 0, 0, 0, 2,
      0, 0, 0, 0, 0, 0, 0, 4, 0, 0, 0, 0, 0, 0, 0, 5>>

\* Compound "" { Byte "b" = 5, Long "g" = 4 }
BufferD ==
    <<10, 0, 0,
      1, 0, 1, 98, 5,
      4, 0, 1, 103, 0, 0, 0, 0, 0, 0, 0, 4,
      0>>

EditBuffers == <<BufferA, BufferB, BufferC, BufferD>>

\* the texts typed into a value field: '7', 'x', '-2.5'
EditTexts == << <<55>>, <<120>>, <<45, 50, 46, 53>> >>
\* the text typed into a name field: 'n'
NewName == <<110>>

Event(op, loc, arg, n) == [op |-> op, loc |-> loc, arg |-> arg, n |-> n]

\* prev with the root of document id being the object `root`
WithRoot(prev, id, root) ==
    [i \in DOMAIN prev |-> IF prev[i].id = id THEN [prev[i] EXCEPT !.root = root] ELSE prev[i]]

\* the rows of root in the order they are laid out
RECURSIVE Rows(_)
Rows(tag) ==
    <<<<>>>> \o ConcatAll([i \in 1..Len(ChildTags(tag)) |->
                              [k \in 1..Len(Rows(ChildTags(tag)[i])) |->
                                  <<i>> \o Rows(ChildTags(tag)[i])[k]]])

\* what each selected path showed when it entered the selection, after a
\* click on the row at loc changed the selection from selected to selected2
ShownAfter(before, selected, root, loc, type, selected2) ==
    IF type = "single"
    THEN {[path |-> NodePath(root, loc), node |-> NodeAt(root, loc)]}
    ELSE {e \in before : e.path \in selected2}
            \cup {[path |-> NodePath(root, Rows(root)[k]),
                   node |-> NodeAt(root, Rows(root)[k])] :
                      k \in {k \in 1..Len(Rows(root)) :
                                LET p == NodePath(root, Rows(root)[k])
                                IN  /\ p \in selected2 \ selected
                                    /\ type = "toggle" => Rows(root)[k] = loc}}

\* one document is open; nothing is selected, or the first row below the root
\* has been clicked
InitEdit ==
    /\ \E i \in 1..Len(EditBuffers) :
            /\ files = <<NewFile(1, parse(EditBuffers[i]).root[1], FALSE)>>
            /\ \/ selectedPaths = {} /\ lastClickedPath = <<>> /\ shown = {}
               \/ LET clicked == handleSelect({}, <<>>, <<files[1]>>,
                                              NodePath(files[1].root, <<1>>), "single").v
                  IN  /\ selectedPaths = clicked.selectedPaths
                      /\ lastClickedPath = clicked.lastClickedPath
                      /\ shown = ShownAfter({}, {}, files[1].root, <<1>>, "single",
                                            clicked.selectedPaths)
    /\ activeFileId = 1
    /\ lastOp = "open" /\ hadRedo = FALSE /\ log = <<>> /\ undone = 0 /\ run = NoRun
    /\ CodecIdle
    /\ crashed = FALSE /\ ev = NoEvent

\* the App is mounted and shows a document
Showing == ~crashed /\ activeFile(files, activeFileId) # <<>>

\* history bookkeeping of a request other than undo and redo
Requested(op) ==
    /\ lastOp' = op /\ hadRedo' = FALSE /\ log' = <<>> /\ undone' = 0 /\ run' = NoRun

\* a request that ended without handing a root over (the handler threw, or
\* handleSave caught the throw): no state is set
Refused == UNCHANGED vars

\* a request that handed newRoot over: NBTNode.onUpdate -> updateActiveFileRoot
Committed(op, loc, arg, r) ==
    /\ ev.n < MaxEdits
    /\ Requested(op)
    /\ ev' = Event(op, loc, arg, ev.n + 1)
    /\ files' = updateActiveFileRoot(WithRoot(files, activeFileId, r.input),
                                     activeFileId, r.v[1])
    /\ UNCHANGED <<activeFileId, codecVars>>

\* a click on a row: plain, with Ctrl/Meta, with Shift
Select ==
    /\ Showing
    /\ \E loc \in Locs(Doc.root), type \in {"single", "toggle", "range"} :
         LET r == handleSelect(selectedPaths, lastClickedPath,
                               activeFile(files, activeFileId),
                               NodePath(Doc.root, loc), type)
         IN  /\ r.ok
             /\ Cardinality(r.v.selectedPaths) <= MaxSel
             /\ selectedPaths' = r.v.selectedPaths
             /\ lastClickedPath' = r.v.lastClickedPath
             /\ shown' = ShownAfter(shown, selectedPaths, Doc.root, loc, type,
                                    r.v.selectedPaths)
             /\ Requested("select")
             /\ ev' = Event("select", loc, type, ev.n)
    /\ UNCHANGED <<files, activeFileId, crashed, codecVars>>

\* the sidebar's delete button (enabled while something is selected), the
\* confirm dialog answered with OK
DeleteSelected ==
    /\ Showing
    /\ selectedPaths # {}
    /\ LET r == deleteNodesByPaths(Doc.root, selectedPaths)
       IN  IF ~r.ok
           THEN Refused
           ELSE /\ Committed("bulk", <<>>, selectedPaths, Handed(<<r.v>>, Doc.root))
                /\ selectedPaths' = {}
                /\ shown' = {}
                /\ UNCHANGED <<lastClickedPath, crashed>>

\* what the name field of a row can hold when V is pressed
EditNames(tag) ==
    IF tag.name.k = "string" THEN {InitialEditName(tag), NewName} ELSE {InitialEditName(tag)}
\* what the value field of a row can hold when V is pressed
EditValues(tag) == IF isContainer(tag) THEN {toString(tag.value)} ELSE Range(EditTexts)

\* the V button of a row in edit mode.  The name field is shown for a named
\* tag, the value field for a tag that is not a container; a field that is not
\* shown holds what the component state holds.
Save ==
    /\ Showing
    /\ \E loc \in Locs(Doc.root) :
         \E editName \in EditNames(NodeAt(Doc.root, loc)),
            editValue \in EditValues(NodeAt(Doc.root, loc)) :
         LET r == handleSave(Doc.root, loc, editName, editValue)
             saved == NodeAt(r.v[1], loc)
         IN  IF r.v = <<>>
             THEN Refused
             ELSE /\ Committed("save", loc, <<editName, editValue>>, r)
                  /\ crashed' \in IF ~RowOk(saved) THEN {TRUE}
                                  ELSE IF isContainer(saved) /\ ~ChildrenOk(saved)
                                       THEN BOOLEAN
                                       ELSE {FALSE}
                  /\ UNCHANGED <<selectedPaths, lastClickedPath, shown>>

\* the + button of a container row (shown while the row is not selected);
\* setIsExpanded(true) shows the children
AddChild ==
    /\ Showing
    /\ \E loc \in Locs(Doc.root) :
         LET r == handleAddChild(Doc.root, loc)
         IN  /\ isContainer(NodeAt(Doc.root, loc))
             /\ NodePath(Doc.root, loc) \notin selectedPaths
             /\ IF r.v = <<>>
                THEN Refused
                ELSE /\ Committed("add", loc, <<>>, r)
                     /\ crashed' = ~ChildrenOk(NodeAt(r.v[1], loc))
                     /\ UNCHANGED <<selectedPaths, lastClickedPath, shown>>

\* the trash button of a row below the root (shown while the row is not
\* selected): onDelete is the parent's handleChildDelete(idx)
DeleteNode ==
    /\ Showing
    /\ \E loc \in Locs(Doc.root) \ {<<>>} :
         LET r == handleChildDelete(Doc.root, Front(loc), Last(loc) - 1)
         IN  /\ NodePath(Doc.root, loc) \notin selectedPaths
             /\ IF r.v = <<>>
                THEN Refused
                ELSE /\ Committed("delete", loc, <<>>, r)
                     /\ UNCHANGED <<selectedPaths, lastClickedPath, crashed, shown>>

\* editing one node at a time, and deleting the row selected at the start
NextEdit == Save \/ AddChild \/ DeleteNode \/ DeleteSelected \/ Undo \/ Redo

SpecEdit == InitEdit /\ [][NextEdit]_vars

\* Compound "" { List "s" of Short [ 7, 8 ], Int "a" = 1 }
BufferS ==
    <<10, 0, 0,
      9, 0, 1, 115, 2, 0, 0, 0, 2, 0, 7, 0, 8,
      3, 0, 1, 97, 0, 0, 0, 1,
      0>>

InitSelect ==
    /\ files = <<NewFile(1, parse(BufferS).root[1], FALSE)>>
    /\ activeFileId = 1
    /\ lastOp = "open" /\ hadRedo = FALSE /\ log = <<>> /\ undone = 0 /\ run = NoRun
    /\ CodecIdle
    /\ AppIdle

\* selecting rows and deleting the selection, between edits of single nodes
NextSelect == Select \/ DeleteSelected \/ DeleteNode

SpecSelect == InitSelect /\ [][NextSelect]_vars

----------------------------------------------------------------------------
(* Opening files *)

\* Compound "" { List "s" of Short [ 7 ] }
BufferU == <<10, 0, 0, 9, 0, 1, 115, 2, 0, 0, 0, 1, 0, 7, 0>>

\* List "" of Byte [ 5 ]
BufferV == <<9, 0, 0, 1, 0, 0, 0, 1, 5>>

Prefix(buf, n) == SubSeq(buf, 1, n)
\* every buffer that ends before the end of BufferU: inside a type byte, a name
\* length, a name, a List header, a payload, or before the End byte
TruncatedBuffers == [n \in 1..Len(BufferU) |-> Prefix(BufferU, n - 1)]
\* the files picked together with others
BatchBuffers == <<BufferU, BufferV, Prefix(BufferU, 13), Prefix(BufferV, 8)>>

RECURSIVE SeqsOf(_, _)
SeqsOf(S, n) ==
    IF n = 0 THEN {<<>>} ELSE {Append(q, x) : q \in SeqsOf(S, n - 1), x \in S}
\* the selections of the file dialog: one file, or up to MaxBatch files
Batches ==
    {<<b>> : b \in Range(TruncatedBuffers) \cup Range(BatchBuffers)}
        \cup UNION {SeqsOf(Range(BatchBuffers), n) : n \in 2..MaxBatch}

\* nothing is open
InitUpload ==
    /\ files = <<>>
    /\ activeFileId = 0
    /\ lastOp = "open" /\ hadRedo = FALSE /\ log = <<>> /\ undone = 0 /\ run = NoRun
    /\ CodecIdle
    /\ AppIdle

\* the change event of the file input, with the files the dialog returned
Uploaded(batch, r) ==
    /\ Len(r.files) <= MaxFiles
    /\ files' = r.files
    /\ activeFileId' = r.activeFileId
    /\ Requested("upload")
    /\ ev' = Event("upload", <<>>, batch, ev.n)
    /\ crashed' = (r.activeFileId # 0
                     /\ ~RenderOk(activeFile(r.files, r.activeFileId)[1].root, 0))
    /\ UNCHANGED <<selectedPaths, lastClickedPath, shown, codecVars>>

Upload ==
    /\ ~crashed
    /\ \E batch \in Batches : Uploaded(batch, handleFileUpload(files, activeFileId, batch))

\* opening files, between edits of the document shown
NextUpload == Upload \/ AddChild

SpecUpload == InitUpload /\ [][NextUpload]_vars

\* the documents a request adds to prev: one per file that decodes, in order
Opened(prev, batch) ==
    LET decoded == SelectSeq(batch, LAMBDA b : parse(b).ok)
    IN  [j \in 1..Len(decoded) |->
            NewFile(Len(prev) + j, parse(decoded[j]).root[1], parse(decoded[j]).isCompressed)]

\* C13: a buffer that ends in the middle of a read fails to decode and yields
\* no tree; a request adds no document for such a file, leaves the documents
\* already open as they are, and still adds the other files of the request.
C13_TruncatedFileSkipped ==
    [][(lastOp' = "upload")
        => /\ \A i \in 1..Len(ev'.arg) :
                 ev'.arg[i] \in Range(TruncatedBuffers)
                    => (~parse(ev'.arg[i]).ok /\ parse(ev'.arg[i]).root = <<>>)
           /\ files' = files \o Opened(files, ev'.arg)]_vars

\* a request of a truncated and a well-formed file, made while a document with
\* a history was open, has added one document
C13_Witness ==
    /\ lastOp = "upload"
    /\ Len(ev.arg) = 2
    /\ ev.arg[1] \in Range(TruncatedBuffers)
    /\ parse(ev.arg[2]).ok
    /\ Len(files) = 2
    /\ files[1].undoStack # <<>>

----------------------------------------------------------------------------
(* Bulk delete *)

\* the node at loc of root without the subtrees whose path, as the rows of
\* root show it, is in paths
RECURSIVE Pruned(_, _, _)
Pruned(root, loc, paths) ==
    LET tag == NodeAt(root, loc)
        n == Len(ChildTags(tag))
        keptIdx == SelectSeq([i \in 1..n |-> i],
                             LAMBDA i : NodePath(root, loc \o <<i>>) \notin paths)
        children == [k \in 1..Len(keptIdx) |-> Pruned(root, loc \o <<keptIdx[k]>>, paths)]
    IN  IF tag.type = TagType_Compound THEN [tag EXCEPT !.value = Tags(children)]
        ELSE IF tag.type = TagType_List
             THEN [tag EXCEPT !.value = ListObj(tag.value.v.itemType, children)]
             ELSE tag

\* the sets of at most MaxSel paths among the rows of the document shown and
\* the paths selected (which may no longer resolve), the root row excluded
PathSets ==
    {P \in SUBSET ((Range(flattenTree(Doc.root, PathRoot).v) \cup selectedPaths)
                      \ {PathRoot}) : Cardinality(P) <= MaxSel}

\* C14: bulk delete by a set of paths removes exactly the subtrees whose path
\* in the input tree is in the set (List indices are those of the input tree)
\* and keeps every other node, in order; an empty set, or one that resolves
\* to no node, yields a tree equal to the input.  The root path is left to C15.
C14_BulkDeleteExact ==
    /\ [](Showing =>
            \A P \in PathSets :
                deleteNodesByPaths(Doc.root, P) = Ret(Pruned(Doc.root, <<>>, P)))
    /\ [][(ev'.op = "bulk" /\ ev'.n = ev.n + 1 /\ PathRoot \notin ev'.arg)
            => Doc'.root = Pruned(Doc.root, <<>>, ev'.arg)]_vars

\* the first element of List "s" and the Int "a" were selected and deleted:
\* the second element of "s" is what is left below the root
C14_Witness ==
    /\ Showing
    /\ ev.op = "bulk"
    /\ Doc.undoStack # <<>>
    /\ LET input == Last(Doc.undoStack)
       IN  /\ Locs(input) = {<<>>, <<1>>, <<1, 1>>, <<1, 2>>, <<2>>}
           /\ ev.arg = {NodePath(input, <<1, 1>>), NodePath(input, <<2>>)}
           /\ Locs(Doc.root) = {<<>>, <<1>>, <<1, 1>>}
           /\ NodeAt(Doc.root, <<1, 1>>) = NodeAt(input, <<1, 2>>)

\* a selection that resolves to no node is deleted: the tree is as it was
C14_WitnessStale ==
    /\ Showing
    /\ ev.op = "bulk"
    /\ Doc.undoStack # <<>>
    /\ Doc.root = Last(Doc.undoStack)

\* C15: a bulk-delete request whose set contains the root path is refused or
\* closes the document; it never installs a root whose children were emptied.
C15_RootNeverEmptied ==
    [][(lastOp' = "bulk" /\ PathRoot \in selectedPaths)
        => \/ files' = files
           \/ \A i \in 1..Len(files') : files'[i].id # activeFileId]_vars

----------------------------------------------------------------------------
(* Edits of single nodes *)

\* the snapshots of a document in the order they were current
Timeline(f) ==
    f.undoStack \o <<f.root>> \o [i \in 1..Len(f.redoStack) |->
                                      f.redoStack[Len(f.redoStack) + 1 - i]]

\* C16: no edit alters its input.  A save, add, single delete or bulk delete
\* that commits leaves the snapshots on undoStack as they were and puts the
\* root it was given, unaltered, on top of them; an undo or redo moves
\* snapshots between the stacks and the root without altering any.
C16_InputsUnaltered ==
    [][IF ev'.n = ev.n + 1
       THEN Len(Doc.undoStack) < HistoryLimit
                => Doc'.undoStack = Append(Doc.undoStack, Doc.root)
       ELSE Timeline(Doc') = Timeline(Doc)]_vars

\* a child was deleted after an earlier edit: two snapshots are held, and they
\* and the root are three different trees
C16_Witness ==
    /\ Showing
    /\ ev.op = "delete" /\ ev.n = 2
    /\ Len(Doc.undoStack) = 2
    /\ Cardinality({Doc.undoStack[1], Doc.undoStack[2], Doc.root}) = 3

\* the value handleSave is to store for the text typed, by the kind of the tag
TypedValue(type, text) ==
    CASE type \in {TagType_Byte, TagType_Short, TagType_Int} -> parseInt(text)
      [] type = TagType_Long -> StringToBigInt(text).v
      [] type \in {TagType_Float, TagType_Double} -> parseFloat(text)
      [] OTHER -> Str(text)

\* the kinds whose value the value field edits
ScalarKinds ==
    {TagType_Byte, TagType_Short, TagType_Int, TagType_Long, TagType_Float,
     TagType_Double, TagType_String}

\* C17: saving the text '7' as the value of a leaf at any location, below any
\* mix of Compound and List ancestors, hands over a new root in which exactly
\* that node's value changed.
C17_LeafUpdateCommits ==
    Showing =>
        \A loc \in Locs(Doc.root) :
            LET tag == NodeAt(Doc.root, loc)
                r == handleSave(Doc.root, loc, InitialEditName(tag), EditTexts[1])
            IN  tag.type \in ScalarKinds
                    => /\ r.v # <<>>
                       /\ r.v[1] = ReplaceAt(Doc.root, loc,
                                             [tag EXCEPT !.value =
                                                 TypedValue(tag.type, EditTexts[1])])

\* the payload of a new List element is the zero or empty value of its kind
ShapedDefault(type, value) ==
    CASE type \in {TagType_Byte, TagType_Short, TagType_Int, TagType_Long, TagType_Float,
                   TagType_Double} ->
            \/ value.k = "int" /\ value.v = 0
            \/ value.k = "f64" /\ value.v = parseFloat(<<48>>).v
            \/ value.k = "bigint" /\ value.v = StringToBigInt(<<48>>).v.v
      [] type = TagType_String -> value.k = "string" /\ value.v = <<>>
      [] type = TagType_Compound -> value.k = "tags" /\ value.v = <<>>
      [] type = TagType_List -> value.k = "object" /\ value.v.list = <<>>
      [] type \in {TagType_ByteArray, TagType_IntArray} ->
            value.k = "numbers" /\ value.v = <<>>
      [] type = TagType_LongArray -> value.k = "bigints" /\ value.v = <<>>
      [] OTHER -> TRUE

\* C18: Add child on a List appends exactly one unnamed child of the declared
\* element kind whose payload is the zero/empty default shaped for that kind;
\* the elements it had are unchanged and keep their order.
C18_ListAddChild ==
    [][(ev'.op = "add" /\ ev'.n = ev.n + 1
            /\ NodeAt(Doc.root, ev'.loc).type = TagType_List)
        => LET old == NodeAt(Doc.root, ev'.loc)
               new == NodeAt(Doc'.root, ev'.loc)
               child == Last(ChildTags(new))
           IN  /\ Doc'.root = ReplaceAt(Doc.root, ev'.loc, new)
               /\ new.type = TagType_List /\ new.name = old.name
               /\ new.value.k = "object"
               /\ new.value.v.itemType = old.value.v.itemType
               /\ Front(ChildTags(new)) = ChildTags(old)
               /\ child.type = old.value.v.itemType
               /\ child.name.k = "null"
               /\ ShapedDefault(child.type, child.value)]_vars

\* every List of the tree holds children of its declared kind without a name
RECURSIVE Homogeneous(_)
Homogeneous(tag) ==
    /\ (tag.type = TagType_List /\ tag.value.k = "object")
            => \A i \in 1..Len(tag.value.v.list) :
                    /\ tag.value.v.list[i].type = tag.value.v.itemType
                    /\ tag.value.v.list[i].name.k = "null"
    /\ \A i \in 1..Len(ChildTags(tag)) :
            IsTag(ChildTags(tag)[i]) => Homogeneous(ChildTags(tag)[i])

C20_SingleDeleteExact ==
    Showing =>
        \A loc \in Locs(Doc.root) \ {<<>>} :
            LET parent == NodeAt(Doc.root, Front(loc))
                left == Splice(ChildTags(parent), Last(loc) - 1)
                r == handleChildDelete(Doc.root, Front(loc), Last(loc) - 1)
            IN  /\ r.v # <<>>
                /\ r.v[1] = ReplaceAt(Doc.root, Front(loc),
                                      IF parent.type = TagType_Compound
                                      THEN [parent EXCEPT !.value = Tags(left)]
                                      ELSE [parent EXCEPT !.value =
                                               ListObj(parent.value.v.itemType, left)])

----------------------------------------------------------------------------
(* Conversions of the text typed into a value field *)

\* the kinds that hold an integer
IntegerKinds == {TagType_Byte, TagType_Short, TagType_Int, TagType_Long}

\* the texts '3.7' and '300'
CoercedTexts == << <<51, 46, 55>>, <<51, 48, 48>> >>

\* the text is an optionally signed run of digits whose value a node of the
\* kind can hold
Representable(type, text) ==
    LET t == TrimEnd(TrimStart(text))
        ds == DigitPrefix(Unsigned(t))
        n == SignOf(t) * DigitsValue(ds)
    IN  /\ Len(ds) > 0 /\ Len(ds) = Len(Unsigned(t))
        /\ CASE type = TagType_Byte -> n >= -128 /\ n <= 127
              [] type = TagType_Short -> n >= -32768 /\ n <= 32767
              [] OTHER -> TRUE

\* C21: no silent coercion.  A save of a text that is not integral, or whose
\* value the node's kind cannot hold, into a Byte, Short, Int or Long node
\* hands no root over: nothing truncated or wrapped is stored.
C21_NoSilentCoercion ==
    Showing =>
        \A loc \in Locs(Doc.root), i \in 1..Len(CoercedTexts) :
            LET tag == NodeAt(Doc.root, loc)
                r == handleSave(Doc.root, loc, InitialEditName(tag), CoercedTexts[i])
            IN  (IsTag(tag) /\ tag.type \in IntegerKinds
                    /\ ~Representable(tag.type, CoercedTexts[i]))
                    => r.v = <<>>

----------------------------------------------------------------------------
(* Rejected edits *)

\* the text is not a number of the node's kind
TextFails(tag, text) ==
    \/ tag.type \in {TagType_Byte, TagType_Short, TagType_Int} /\ parseInt(text).k = "nan"
    \/ tag.type = TagType_Long /\ ~StringToBigInt(text).ok
    \/ tag.type \in {TagType_Float, TagType_Double} /\ parseFloat(text).k = "nan"

\* an ancestor of the node at loc cannot be rebuilt: its value is not iterable
AncestorFails(root, loc) ==
    \E k \in 0..(Len(loc) - 1) : ~Iterable(NodeAt(root, SubSeq(loc, 1, k)).value)

SaveFails(root, loc, text) ==
    TextFails(NodeAt(root, loc), text) \/ AncestorFails(root, loc)

\* C22: a rejected edit has no side effects.  A save whose text is not a
\* number of the node's kind, or that fails while an ancestor is rebuilt, hands
\* no root over and leaves the rendered tree as it is; every save that pushed
\* a history entry was a request that did not fail; and a step that is not a
\* commit, an undo or a redo leaves root, undoStack, redoStack and the dirty
\* flag of every document as they were.
C22_RejectedEditNoEffect ==
    /\ [](Showing =>
            \A loc \in Locs(Doc.root), text \in Range(EditTexts) :
                LET tag == NodeAt(Doc.root, loc)
                    r == handleSave(Doc.root, loc, InitialEditName(tag), text)
                IN  SaveFails(Doc.root, loc, text)
                        => (r.v = <<>> /\ r.input = Doc.root))
    /\ [][/\ (ev'.op = "save" /\ ev'.n = ev.n + 1)
                => ~SaveFails(Doc.root, ev'.loc, ev'.arg[2])
          /\ (ev'.n = ev.n /\ lastOp' \notin {"undo", "redo"}) => files' = files]_vars

\* a document with a history on both stacks shows a numeric leaf, for which the
\* text 'x' is refused, and a leaf below a List, for which every save fails
C22_Witness ==
    /\ Showing
    /\ lastOp = "undo" /\ Doc.isModified
    /\ Doc.undoStack # <<>> /\ Doc.redoStack # <<>>
    /\ \E loc \in Locs(Doc.root) :
            /\ TextFails(NodeAt(Doc.root, loc), EditTexts[2])
            /\ ~AncestorFails(Doc.root, loc)
    /\ \E loc \in Locs(Doc.root) :
            /\ AncestorFails(Doc.root, loc)
            /\ ~TextFails(NodeAt(Doc.root, loc), EditTexts[1])

----------------------------------------------------------------------------
(* The order of the rows *)

\* a tree of the data model: a Compound holds an array of tags, a List the
\* object {itemType, list} with a list of tags
RECURSIVE Shaped(_)
Shaped(tag) ==
    /\ IsTag(tag)
    /\ tag.type = TagType_Compound => tag.value.k = "tags"
    /\ tag.type = TagType_List => tag.value.k = "object"
    /\ \A i \in 1..Len(ChildTags(tag)) : Shaped(ChildTags(tag)[i])

IsPrefix(p, q) == Len(p) <= Len(q) /\ SubSeq(q, 1, Len(p)) = p

\* C23: flattenTree is a pre-order traversal.  For a tree of the data model it
\* returns one path per node, the root's first, the path of each node being
\* the one its row carries; the paths of a node's subtree are one contiguous
\* run that starts with the node's own path and ends where the path of the
\* next sibling (if any) stands.
C23_FlattenPreOrder ==
    \A f \in 1..Len(files) :
        \A root \in Range(Timeline(files[f])) :
            Shaped(root) =>
                LET r == flattenTree(root, PathRoot)
                    order == Rows(root)
                IN  /\ r.ok
                    /\ Len(r.v) = Cardinality(Locs(root))
                    /\ r.v[1] = PathRoot
                    /\ \A i \in 1..Len(r.v) : r.v[i] = NodePath(root, order[i])
                    /\ \A i \in 1..Len(order) :
                          LET below == {j \in 1..Len(order) : IsPrefix(order[i], order[j])}
                              n == Cardinality(below)
                              sibling == Front(order[i]) \o <<Last(order[i]) + 1>>
                          IN  /\ below = i..(i + n - 1)
                              /\ (i > 1 /\ sibling \in Locs(root))
                                    => order[i + n] = sibling

\* a child was added to a List below the root: the tree has a List of two or
\* more elements and a node three levels down
C23_Witness ==
    /\ Showing /\ Shaped(Doc.root)
    /\ ev.op = "add" /\ Len(ev.loc) = 1
    /\ NodeAt(Doc.root, ev.loc).type = TagType_List
    /\ Len(ChildTags(NodeAt(Doc.root, ev.loc))) >= 2
    /\ \E loc \in Locs(Doc.root) : Len(loc) = 3
    /\ Len(flattenTree(Doc.root, PathRoot).v) >= 7

----------------------------------------------------------------------------
(* Renaming *)

\* the kinds whose payload the value field does not edit
PayloadKinds ==
    {TagType_Compound, TagType_List, TagType_ByteArray, TagType_IntArray,
     TagType_LongArray}

\* C24: a save on the row of a Compound, a List or an array changes the name
\* of that node only: the payload of the node in the committed tree is the
\* payload it had.
C24_RenameKeepsPayload ==
    [][(ev'.op = "save" /\ ev'.n = ev.n + 1
            /\ NodeAt(Doc.root, ev'.loc).type \in PayloadKinds)
        => LET old == NodeAt(Doc.root, ev'.loc)
               new == NodeAt(Doc'.root, ev'.loc)
           IN  /\ new.type = old.type
               /\ new.value.k = old.value.k
               /\ new.value.v = old.value.v]_vars

----------------------------------------------------------------------------
(* Paths as identifiers *)

\* C25: a path identifies one node.  The paths flattenTree returns for the
\* tree of a document reached by decoding and editing are pairwise different.
C25_PathsDistinct ==
    \A f \in 1..Len(files) :
        Shaped(files[f].root) =>
            LET paths == flattenTree(files[f].root, PathRoot).v
            IN  \A i, j \in 1..Len(paths) : paths[i] = paths[j] => i = j

----------------------------------------------------------------------------
(* Range selection *)

----------------------------------------------------------------------------
(* What a bulk delete removes *)

\* the document List "r" of Long [ 4, 5 ] is open and nothing is selected
InitStale ==
    /\ files = <<NewFile(1, parse(BufferC).root[1], FALSE)>>
    /\ activeFileId = 1
    /\ lastOp = "open" /\ hadRedo = FALSE /\ log = <<>> /\ undone = 0 /\ run = NoRun
    /\ CodecIdle
    /\ AppIdle

\* selecting rows and deleting the selection, between single deletes, undos
\* and redos
NextStale == Select \/ DeleteSelected \/ DeleteNode \/ Undo \/ Redo

SpecStale == InitStale /\ [][NextStale]_vars

\* C27: delete-selected removes only nodes the user selected.  Every leaf of
\* the tree that a bulk delete removes because its path is in the selection is
\* the node that path showed when it entered the selection, whatever single
\* deletes, undos and redos came in between.
C27_RemovesWhatWasSelected ==
    [][(ev'.op = "bulk" /\ ev'.n = ev.n + 1)
        => \A loc \in Locs(Doc.root) :
              (NodePath(Doc.root, loc) \in selectedPaths
                    /\ ~isContainer(NodeAt(Doc.root, loc)))
                  => [path |-> NodePath(Doc.root, loc),
                      node |-> NodeAt(Doc.root, loc)] \in shown]_vars

----------------------------------------------------------------------------
(* Requests issued before the view is rendered again *)

\* one request of a burst: its handler is the one created by the last render,
\* so it reads af, the activeFile of that render; the updater it hands to
\* setFiles receives prev, the state the requests before it have left
Issued(op, prev, af) ==
    CASE op = "commit" -> updateActiveFileRoot(prev, af[1].id, NextRoot(af[1].root))
      [] op = "undo" -> handleUndo(prev, af)
      [] op = "redo" -> handleRedo(prev, af)
      [] OTHER -> prev

BurstOps == {"commit", "undo", "redo"}

\* an edit, or an edit or a key press followed by a key press that reaches
\* the handleKeyDown of the same render
Burst ==
    /\ ~crashed
    /\ activeFile(files, activeFileId) # <<>>
    /\ ev.n < MaxBursts
    /\ \E first \in BurstOps, second \in BurstOps \cup {"none"} :
         LET af == activeFile(files, activeFileId)
         IN  /\ first = "commit" \/ second # "none"
             /\ files' = Issued(second, Issued(first, files, af), af)
             /\ ev' = Event("burst", <<>>, <<first, second>>, ev.n + 1)
    /\ Requested("burst")
    /\ UNCHANGED <<activeFileId, codecVars, selectedPaths, lastClickedPath, crashed, shown>>

\* requests that are rendered before the next one and requests that are not
NextBurst == Undo \/ Redo \/ Burst

SpecBurst == Init /\ [][NextBurst]_vars

\* C28: history requests issued back-to-back each act on the result of the
\* one before.  Two undos against an undoStack of two or more entries restore
\* the second most recent snapshot and take two entries off undoStack; after
\* a commit followed at once by an undo or a redo, the root the commit
\* installed and the snapshot it pushed are still among the snapshots held.
C28_BackToBack ==
    [][(ev'.op = "burst" /\ ev'.n = ev.n + 1)
        => LET n == Len(Doc.undoStack)
           IN  /\ (ev'.arg = <<"undo", "undo">> /\ n >= 2)
                    => /\ Doc'.root = Doc.undoStack[n - 1]
                       /\ Doc'.undoStack = SubSeq(Doc.undoStack, 1, n - 2)
               /\ (ev'.arg[1] = "commit" /\ ev'.arg[2] \in {"undo", "redo"})
                    => /\ NextRoot(Doc.root) \in Range(Timeline(Doc'))
                       /\ Doc.root \in Range(Timeline(Doc'))]_vars

----------------------------------------------------------------------------
(* Several documents *)

\* a click on the tab of a document that is not the active one
SwitchTab ==
    /\ ~crashed
    /\ \E i \in 1..Len(files) :
         /\ files[i].id # activeFileId
         /\ activeFileId' = files[i].id
         /\ crashed' = ~RenderOk(files[i].root, 0)
    /\ Requested("switch")
    /\ ev' = Event("switch", <<>>, <<>>, ev.n)
    /\ UNCHANGED <<files, selectedPaths, lastClickedPath, shown, codecVars>>

\* opening files, switching between them and editing the one shown
NextDocs == Upload \/ SwitchTab \/ AddChild \/ Undo \/ Redo

SpecDocs == InitUpload /\ [][NextDocs]_vars

\* C29: history is kept per document.  A commit, an undo or a redo leaves
\* every document but the active one as it is (root, undoStack, redoStack,
\* compressed flag, dirty flag) and opens or closes none; a request that opens
\* files leaves the open documents as they are, and each document it adds
\* has empty stacks and is not dirty.
C29_PerDocumentHistory ==
    [][/\ lastOp' \in {"add", "undo", "redo"}
            => /\ Len(files') = Len(files)
               /\ \A i \in 1..Len(files) :
                     files[i].id # activeFileId => files'[i] = files[i]
       /\ lastOp' = "upload"
            => /\ Len(files') >= Len(files)
               /\ \A i \in 1..Len(files) : files'[i] = files[i]
               /\ \A i \in (Len(files) + 1)..Len(files') :
                     /\ files'[i].undoStack = <<>>
                     /\ files'[i].redoStack = <<>>
                     /\ ~files'[i].isModified]_vars

\* the first document was edited, the second was then shown, edited and the
\* edit undone: both have a history of their own
C29_Witness ==
    /\ Len(files) = 2
    /\ activeFileId = files[2].id
    /\ lastOp = "undo"
    /\ files[1].undoStack # <<>> /\ files[1].isModified
    /\ files[2].redoStack # <<>> /\ files[2].undoStack = <<>>
    /\ files[1].root # files[2].root

----------------------------------------------------------------------------
(* Unknown kinds *)

KnownKinds == TagType_End..TagType_LongArray

\* C30: a kind byte outside 0..12, read as the root kind, as the kind of a
\* Compound's child or as a List's declared element kind, makes the decode
\* fail; a decoded tree holds no node of an unknown kind, no List declaring
\* one, and no node whose value is undefined.
C30_UnknownKindFails ==
    cpc = "parsed" =>
        /\ bytes \in Range(UnknownKindBuffers) => (~res.ok /\ res.root = <<>>)
        /\ res.ok =>
              \A loc \in Locs(res.root[1]) :
                  LET node == NodeAt(res.root[1], loc)
                  IN  /\ node.type \in KnownKinds
                      /\ node.value.k # "undefined"
                      /\ (node.type = TagType_List /\ node.value.k = "object")
                            => node.value.v.itemType \in KnownKinds

====
